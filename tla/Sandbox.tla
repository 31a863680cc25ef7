------------------------------ MODULE Sandbox ------------------------------
(***************************************************************************)
(* The pages of the sandbox that query a DDN or a Seafowl: a widget that   *)
(* keeps a pair of values in localStorage (API key and secret, or URL and  *)
(* secret), a client built from the pair, and two panes, one typed into    *)
(* and one that shows what was typed or what came back.                    *)
(*                                                                         *)
(* A page is open in several tabs over one entry of localStorage.  Within  *)
(* a tab the page and its widget have an instance each of the hook that    *)
(* reads the entry, once, when the tab loads: what the widget saves        *)
(* reaches neither the page and its client nor another tab.                *)
(***************************************************************************)
EXTENDS Naturals, Sequences, FiniteSets, TLC

CONSTANTS
    Tabs,         \* the tabs; what is typed in a tab's widget is named after the tab
    BadURLs,      \* the tabs whose URL is not one
    Uses,         \* bound: what a behaviour uses, of "widgets", "panes" and "both"
    PaneTabs,     \* bound: the tabs whose panes are used
    MaxChanges,   \* bound: how often the input of a pane changes
    MaxSubmits,   \* bound: how often it is submitted
    Garbage,      \* an entry that is not JSON
    Nothing       \* null or undefined

\* The two values of a widget: what names the account or server, and the secret.
Fields == {"id", "secret"}
Inputs == Tabs \cup {"", Nothing}
Pairs == [Fields -> Inputs]
Truthy(value) == value \notin {"", Nothing}
Complete(pair) == pair \in Pairs /\ \A field \in Fields : Truthy(pair[field])
Untyped == [field \in Fields |-> Nothing]

ASSUME SandboxAssumption ==
    /\ BadURLs \cup PaneTabs \subseteq Tabs /\ Uses \subseteq {"widgets", "panes", "both"}
    /\ {MaxChanges, MaxSubmits} \subseteq Nat
    /\ Garbage # Nothing /\ {Garbage, Nothing} \cap Tabs = {}
    /\ Garbage \notin Pairs /\ Nothing \notin Pairs
    /\ "" \notin Tabs \cup {Garbage, Nothing}

-----------------------------------------------------------------------------
VARIABLES
    page,      \* "ddn" or "seafowl"
    use,       \* see Uses
    stored,    \* the page's entry of localStorage
    writer,    \* the tab that wrote it last, or Nothing
    kept,      \* history: the complete pairs that were there, or that one click saved
    at,        \* at[tab]: "closed", "open", or "lost" when its page failed to render
    loaded,    \* loaded[tab]: the state of the page's hook
    shown,     \* shown[tab]: the state of the widget's hook
    typed,     \* typed[tab]: the inputs of the widget
    client,    \* client[tab]: the pair the client speaks with, or Nothing
    input,     \* input[tab]: the text of the input pane, as the number of its changes
    down,      \* down[tab]: the keys that were pressed and whose release was not heard
    pasted,    \* pasted[tab]: whether the input changed since the last event of a key
    sent,      \* sent[tab]: the submitted texts, in order
    pending,   \* pending[tab]: which of them wait for an answer
    output     \* output[tab]: what the output pane shows

entry == <<stored, writer, kept>>
hooks == <<loaded, shown, typed, client>>
panes == <<input, down, pasted, sent, pending, output>>
vars == <<page, use, entry, at, hooks, panes>>

\* Cmd, the Enter key, and "letter" for all others.
Keys == {"letter", "Meta", "Enter"}
Echo(text) == [kind |-> "echo", of |-> text, late |-> FALSE]
Answer(n, late) == [kind |-> "answer", of |-> n, late |-> late]
Start == [kind |-> "start", of |-> 0, late |-> FALSE]

TypeOK ==
    /\ page \in {"ddn", "seafowl"} /\ use \in Uses
    /\ stored \in Pairs \cup {Nothing, Garbage}
    /\ writer \in Tabs \cup {Nothing} /\ kept \subseteq Pairs
    /\ at \in [Tabs -> {"closed", "open", "lost"}]
    /\ loaded \in [Tabs -> Pairs \cup {Nothing}] /\ shown \in [Tabs -> Pairs \cup {Nothing}]
    /\ typed \in [Tabs -> Pairs] /\ client \in [Tabs -> Pairs \cup {Nothing}]
    /\ input \in [Tabs -> 0 .. MaxChanges] /\ down \in [Tabs -> SUBSET Keys]
    /\ pasted \in [Tabs -> BOOLEAN]
    /\ sent \in [Tabs -> Seq(1 .. MaxChanges)] /\ pending \in [Tabs -> SUBSET (1 .. MaxSubmits)]
    /\ output \in [Tabs -> [kind : {"start", "echo", "answer"}, of : Nat, late : BOOLEAN]]

Init ==
    /\ page \in {"ddn", "seafowl"} /\ use \in Uses
    /\ stored \in {Nothing, Garbage} \cup {[field \in Fields |-> tab] : tab \in Tabs}
    /\ writer = Nothing /\ kept = {pair \in {stored} : Complete(pair)}
    /\ at = [tab \in Tabs |-> "closed"]
    /\ loaded = [tab \in Tabs |-> Nothing] /\ shown = [tab \in Tabs |-> Nothing]
    /\ typed = [tab \in Tabs |-> Untyped] /\ client = [tab \in Tabs |-> Nothing]
    /\ input = [tab \in Tabs |-> 0] /\ down = [tab \in Tabs |-> {}]
    /\ pasted = [tab \in Tabs |-> FALSE]
    /\ sent = [tab \in Tabs |-> << >>] /\ pending = [tab \in Tabs |-> {}]
    /\ output = [tab \in Tabs |-> Start]

-----------------------------------------------------------------------------
\* What usePersistedCredential makes of its entry: nothing of one that does not parse.
ParsedCredential(item) == IF item = Garbage THEN Nothing ELSE item

\* usePersistedConfig is the same hook over another entry, written a second time.
ParsedConfig(item) == ParsedCredential(item)

Parsed(item) == IF page = "ddn" THEN ParsedCredential(item) ELSE ParsedConfig(item)

\* The client of DebugDDN: a pair, or anonymous when one of its values is missing.
ClientOfDDN(pair) ==
    IF pair # Nothing /\ Truthy(pair["id"]) /\ Truthy(pair["secret"]) THEN pair ELSE Nothing

\* DebugSeafowl makes its client, of the default URL when there is none.
ClientOfSeafowl(pair) == IF pair # Nothing /\ Truthy(pair["id"]) THEN pair ELSE Nothing

\* new URL throws while the page renders; the widget is gone with the page.
FailsToRender(pair) == page = "seafowl" /\ pair # Nothing /\ pair["id"] \in BadURLs

(***************************************************************************)
(* The tab is opened or loaded again: both hooks read the entry, and the   *)
(* client is built from it.                                                *)
(***************************************************************************)
Load(tab) ==
    LET pair == Parsed(stored)
    IN  /\ at' = [at EXCEPT ![tab] = IF FailsToRender(pair) THEN "lost" ELSE "open"]
        /\ loaded' = [loaded EXCEPT ![tab] = pair]
        /\ shown' = [shown EXCEPT ![tab] = pair]
        /\ typed' = [typed EXCEPT ![tab] = Untyped]
        /\ client' = [client EXCEPT ![tab] =
                        IF page = "ddn" THEN ClientOfDDN(pair) ELSE ClientOfSeafowl(pair)]
        /\ input' = [input EXCEPT ![tab] = 0] /\ down' = [down EXCEPT ![tab] = {}]
        /\ pasted' = [pasted EXCEPT ![tab] = FALSE]
        /\ sent' = [sent EXCEPT ![tab] = << >>] /\ pending' = [pending EXCEPT ![tab] = {}]
        /\ output' = [output EXCEPT ![tab] = Start]
        /\ UNCHANGED <<page, use, entry>>

\* The user types into one input of the widget, or empties it.
Type(tab, field, value) ==
    /\ at[tab] = "open" /\ value # typed[tab][field]
    /\ typed' = [typed EXCEPT ![tab][field] = value]
    /\ UNCHANGED <<page, use, entry, at, loaded, shown, client, panes>>

\* Mutant: what is undefined is left out before the entry is assigned to.
MergedDefined(pair) ==
    LET current == IF Parsed(stored) = Nothing THEN Untyped ELSE Parsed(stored)
        defined == {field \in Fields : pair[field] # Nothing}
    IN  [field \in Fields |-> IF field \in defined THEN pair[field] ELSE current[field]]

\* Object.assign(current entry, pair): undefined overwrites too, and JSON drops it.
Merged(pair) ==
    LET current == IF Parsed(stored) = Nothing THEN Untyped ELSE Parsed(stored)
    IN  [field \in DOMAIN pair \cup DOMAIN current |->
            IF field \in DOMAIN pair THEN pair[field] ELSE current[field]]

\* Mutant: the credential is stored as it is, without JSON.
SetCredentialUnserialised(tab, credential) ==
    /\ stored' = IF credential = Nothing THEN Nothing ELSE [text |-> "[object Object]"]
    /\ shown' = [shown EXCEPT ![tab] = credential] /\ writer' = tab

\* setCredential of usePersistedCredential removes the entry or assigns to it.
SetCredential(tab, credential) ==
    LET next == IF credential = Nothing THEN Nothing ELSE Merged(credential)
    IN  stored' = next /\ shown' = [shown EXCEPT ![tab] = next] /\ writer' = tab

SetConfig(tab, config) == SetCredential(tab, config)

SetPersisted(tab, pair) ==
    IF page = "ddn" THEN SetCredential(tab, pair) ELSE SetConfig(tab, pair)

\* An input is dirty when it holds something else than the state of the widget's hook.
Dirty(tab, field) ==
    /\ Truthy(typed[tab][field])
    /\ shown[tab] # Nothing => typed[tab][field] # shown[tab][field]

(***************************************************************************)
(* Save stores both inputs, also one that nobody typed into: that one is   *)
(* undefined even if the entry has a value, which is shown in it.          *)
(***************************************************************************)
OnClickSave(tab) ==
    /\ at[tab] = "open" /\ \E field \in Fields : Dirty(tab, field)
    /\ SetPersisted(tab, typed[tab])
    /\ kept' = kept \cup {pair \in {typed[tab]} : Complete(pair)}
    /\ UNCHANGED <<page, use, at, loaded, typed, client, panes>>

\* Mutant: the entry stays in localStorage.
OnClickClearKeeping(tab) ==
    /\ at[tab] = "open" /\ shown[tab] # Nothing
    /\ shown' = [shown EXCEPT ![tab] = Nothing]
    /\ typed' = [typed EXCEPT ![tab] = Untyped]
    /\ writer' = tab
    /\ UNCHANGED <<page, use, stored, kept, at, loaded, client, panes>>

\* Clear is there while the widget has a pair; it removes the entry and empties the inputs.
OnClickClear(tab) ==
    /\ at[tab] = "open" /\ shown[tab] # Nothing
    /\ SetPersisted(tab, Nothing)
    /\ typed' = [typed EXCEPT ![tab] = Untyped]
    /\ UNCHANGED <<page, use, kept, at, loaded, client, panes>>

-----------------------------------------------------------------------------
\* The panes: those of a Seafowl are there once the page has a URL.
HasPanes(tab) ==
    /\ use # "widgets" /\ tab \in PaneTabs /\ at[tab] = "open"
    /\ page = "seafowl" => client[tab] # Nothing

unpaned == <<page, use, entry, at, hooks>>

\* The output becomes the echo of the input as the event finds it.
OnChangeInput(tab) ==
    /\ output' = [output EXCEPT ![tab] = Echo(input[tab])]
    /\ pasted' = [pasted EXCEPT ![tab] = FALSE]

Change(tab) ==
    /\ input[tab] < MaxChanges
    /\ input' = [input EXCEPT ![tab] = @ + 1]

(***************************************************************************)
(* Any other key than Cmd, and Enter without Cmd: the listeners run, then  *)
(* the browser changes the input (a letter, Cmd+V) or not (an arrow,       *)
(* Cmd+C).  A key that is held repeats.                                    *)
(***************************************************************************)
KeyDown(tab, key) ==
    /\ HasPanes(tab) /\ key \in {"letter", "Enter"}
    /\ key = "Enter" => "Meta" \notin down[tab]
    /\ OnChangeInput(tab)
    /\ Change(tab) \/ UNCHANGED input
    /\ down' = [down EXCEPT ![tab] = @ \cup {key}]
    /\ UNCHANGED <<unpaned, sent, pending>>

KeyDownMeta(tab) ==
    /\ HasPanes(tab) /\ "Meta" \notin down[tab]
    /\ OnChangeInput(tab)
    /\ down' = [down EXCEPT ![tab] = @ \cup {"Meta"}]
    /\ UNCHANGED <<unpaned, input, sent, pending>>

\* An input that is empty is not submitted.
OnSubmitInput(tab) ==
    IF input[tab] = 0 THEN UNCHANGED <<sent, pending>>
    ELSE /\ Len(sent[tab]) < MaxSubmits
         /\ sent' = [sent EXCEPT ![tab] = Append(@, input[tab])]
         /\ pending' = [pending EXCEPT ![tab] = @ \cup {Len(sent[tab]) + 1}]

\* Cmd+Enter submits the input instead of echoing it.
KeyDownEnter(tab) ==
    /\ HasPanes(tab) /\ "Meta" \in down[tab]
    /\ OnSubmitInput(tab)
    /\ down' = [down EXCEPT ![tab] = @ \cup {"Enter"}]
    /\ pasted' = pasted
    /\ UNCHANGED <<unpaned, input, output>>

\* Mutant: there is no listener for the release of a key.
KeyUpUnheard(tab, key) ==
    /\ HasPanes(tab) /\ key \in down[tab]
    /\ down' = [down EXCEPT ![tab] = @ \ {key}]
    /\ pasted' = [pasted EXCEPT ![tab] = FALSE]
    /\ UNCHANGED <<unpaned, input, sent, pending, output>>

\* The release of a key echoes the input, unless it is the Enter of a Cmd+Enter.
KeyUp(tab, key) ==
    /\ HasPanes(tab) /\ key \in down[tab]
    /\ down' = [down EXCEPT ![tab] = @ \ {key}]
    /\ IF key = "Enter" /\ "Meta" \in down[tab] THEN UNCHANGED <<output, pasted>>
       ELSE OnChangeInput(tab)
    /\ UNCHANGED <<unpaned, input, sent, pending>>

\* A change that no key makes (the mouse pastes) has no listener.
Paste(tab) ==
    /\ HasPanes(tab) /\ Change(tab)
    /\ pasted' = [pasted EXCEPT ![tab] = TRUE]
    /\ UNCHANGED <<unpaned, down, sent, pending, output>>

\* Mutant: an answer that is shown is not replaced by another.
OnAnswerKeepingFirst(tab, n) ==
    /\ n \in pending[tab]
    /\ pending' = [pending EXCEPT ![tab] = @ \ {n}]
    /\ output' = [output EXCEPT ![tab] = IF @.kind = "answer" THEN @ ELSE Answer(n, FALSE)]
    /\ UNCHANGED <<unpaned, input, down, pasted, sent>>

\* An answer is late when that of a later submission came before it.
Overtaken(tab, n) == \E later \in n + 1 .. Len(sent[tab]) : later \notin pending[tab]

\* execute resolves, in any order, and the output pane shows the result.
OnAnswer(tab, n) ==
    /\ n \in pending[tab]
    /\ pending' = [pending EXCEPT ![tab] = @ \ {n}]
    /\ output' = [output EXCEPT ![tab] = Answer(n, Overtaken(tab, n))]
    /\ UNCHANGED <<unpaned, input, down, pasted, sent>>

-----------------------------------------------------------------------------
Widget(tab) ==
    /\ use # "panes"
    /\ \/ OnClickSave(tab) \/ OnClickClear(tab)
       \/ \E field \in Fields, value \in {tab, ""} : Type(tab, field, value)

\* The widgets of the two pages are one component, written twice.
AuthWidget(tab) == page = "ddn" /\ Widget(tab)
ConfigWidget(tab) == page = "seafowl" /\ Widget(tab)

SplitPaneInputOutput(tab) ==
    \/ KeyDownMeta(tab) \/ KeyDownEnter(tab) \/ Paste(tab)
    \/ \E key \in Keys : KeyDown(tab, key) \/ KeyUp(tab, key)
    \/ \E n \in pending[tab] : OnAnswer(tab, n)

Next ==
    \E tab \in Tabs :
        Load(tab) \/ AuthWidget(tab) \/ ConfigWidget(tab) \/ SplitPaneInputOutput(tab)

Spec == Init /\ [][Next]_vars

-----------------------------------------------------------------------------
(* A key and a secret that no single click saved never meet, be it that    *)
(* they come from two tabs or from two saves of one: neither in the entry, *)
(* nor in a widget, nor in a client, whichever tabs saved, cleared and     *)
(* loaded in between.  (That a save forgets the input nobody typed into is *)
(* the price of it.)                                                       *)
Together(pair) == Complete(pair) => pair \in kept
PairsStayTogether ==
    /\ Together(stored)
    /\ \A tab \in Tabs : Together(loaded[tab]) /\ Together(shown[tab]) /\ Together(client[tab])

(* The widget that wrote the entry last shows what is in it: nothing it    *)
(* cleared comes back when a tab is loaded, and nothing it saved is lost.  *)
WriterShowsEntry ==
    writer # Nothing => shown[writer] = stored

(* Once no key is held that may change the input, an echo in the output    *)
(* pane is that of the input as it is, although the listeners of a pressed *)
(* key see it as it was: the release of the key makes up for it, or the    *)
(* Cmd after which the release of Enter is not heard.  A change by mouse   *)
(* waits for the next key.                                                 *)
Changing(keys) == "letter" \in keys \/ ("Enter" \in keys /\ "Meta" \notin keys)
EchoesInput ==
    \A tab \in Tabs :
        (output[tab].kind = "echo" /\ ~Changing(down[tab]) /\ ~pasted[tab])
            => output[tab].of = input[tab]

(* The output pane shows the answer of an earlier submission only while    *)
(* those of all later ones are out, or when it came after one of them:     *)
(* answers replace each other in the order they come, nothing else.        *)
ShowsNewestAnswer ==
    \A tab \in Tabs :
        (output[tab].kind = "answer" /\ ~output[tab].late)
            => output[tab].of + 1 .. Len(sent[tab]) \subseteq pending[tab]

(* The inductive invariant behind these: an entry that a widget wrote      *)
(* parses.                                                                 *)
WrittenParses == writer # Nothing => stored # Garbage
IInv ==
    /\ TypeOK /\ WrittenParses
    /\ PairsStayTogether /\ WriterShowsEntry /\ EchoesInput /\ ShowsNewestAnswer
=============================================================================
