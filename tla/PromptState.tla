---------------------------- MODULE PromptState ----------------------------
(***************************************************************************)
(* What the wrapper knows of Claude's permission prompts, and what holds   *)
(* of it whenever it is looked at.  PromptWatcher has the steps.           *)
(***************************************************************************)
EXTENDS Integers, Sequences, FiniteSets

CONSTANTS
    Tools,       \* tool uses that Claude makes, in any order
    Questions,   \* those that ask the user something (AskUserQuestion)
    ScreenSig,   \* tool -> signature of its prompt on the screen
    LocalSig,    \* the same for a prompt whose options cannot be read
    LogSig,      \* tool -> signature of its row
    Layout,      \* tool -> options of its prompt: key -> meaning
    Handlers,    \* handlers that can run at a time (a bound of the model)
    BufferCap    \* frames that fit the screen buffer

Nil == "none"
Sigs == UNION {{ScreenSig[t], LocalSig[t], LogSig[t]} : t \in Tools}
Meanings == {"yes", "always", "no", "other"}

ASSUME WatcherAssumption ==
    /\ Questions \subseteq Tools
    /\ BufferCap \in Nat \ {0}
    /\ \A t \in Tools : \A k \in DOMAIN Layout[t] : k \in 1..9 /\ Layout[t][k] \in Meanings

VARIABLES
    life,      \* tool -> how far Claude is with it
    answer,    \* tool -> the option that a web decision chose for it, or none
    shown,     \* the tool whose prompt Claude shows, or none
    rows,      \* rows of the transcript the tailer has not read
    buffer,    \* frames painted since a prompt was last accepted
    active,    \* signatures that have a handler
    recent,    \* signatures whose handler ended less than two seconds ago
    timers,    \* fallbackTimers: signature -> tool, or none
    ticking,   \* tools whose timer runs
    fired,     \* tools whose timer fired; the callback waits for the mutex
    toolUse,   \* toolUseFallback: tool -> signature, or none
    handler,   \* the handlers
    cards      \* handlers whose request the web shows as pending

-----------------------------------------------------------------------------
\* The types of the variables; a tool is on the screen only while it is shown.
PromptTypeOK ==
    /\ life \in [Tools -> {"new", "called", "shown", "answered", "done"}]
    /\ answer \in [Tools -> Meanings \cup {Nil}]
    /\ shown \in Tools \cup {Nil} /\ (shown # Nil => life[shown] = "shown")
    /\ Len(buffer) <= BufferCap
    /\ timers \in [Sigs -> Tools \cup {Nil}] /\ ticking \cup fired \subseteq Tools
    /\ active \cup recent \subseteq Sigs
    /\ toolUse \in [Tools -> Sigs \cup {Nil}]
    /\ \A h \in Handlers : handler[h].pc \in {"free", "begin", "await", "type"}

\* A signature is active exactly while one handler works on it, whichever of
\* the screen and the transcript found it first: else its prompts would never
\* be offered again, or be offered twice.
Busy(h) == handler[h].pc # "free"
ActiveIsHandled ==
    /\ PromptTypeOK
    /\ active = {handler[h].sig : h \in {g \in Handlers : Busy(g)}}
    /\ \A g, h \in Handlers : Busy(g) /\ Busy(h) /\ handler[g].sig = handler[h].sig => g = h
    /\ active \cap recent = {}

\* A web decision never chooses the option that persists a rule.
OneTimeGrantOnly == \A t \in Tools : answer[t] # "always"
=============================================================================
