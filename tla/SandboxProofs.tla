--------------------------- MODULE SandboxProofs ---------------------------
(***************************************************************************)
(* Proofs about Sandbox, for any number of tabs and any bounds.            *)
(***************************************************************************)
EXTENDS Sandbox, TLAPS

OutputType == [kind : {"start", "echo", "answer"}, of : Nat, late : BOOLEAN]

(* What a tab that is loaded begins with, and what no pair is.             *)
LEMMA Beginnings ==
    /\ Untyped \in Pairs /\ << >> \in Seq(1 .. MaxChanges) /\ 0 \in 0 .. MaxChanges
    /\ Start \in OutputType /\ Start.kind = "start"
    /\ Garbage \notin Pairs /\ Nothing \notin Pairs /\ Garbage # Nothing
    /\ MaxChanges \in Nat /\ MaxSubmits \in Nat
<1>1. MaxChanges \in Nat /\ MaxSubmits \in Nat
  BY SandboxAssumption
<1>2. 0 \in 0 .. MaxChanges
  BY <1>1
<1>3. << >> \in Seq(1 .. MaxChanges)
  OBVIOUS
<1>4. Start \in OutputType /\ Start.kind = "start"
  BY DEF Start, OutputType
<1>5. Untyped \in Pairs
  BY DEF Untyped, Pairs, Inputs
<1>6. Garbage \notin Pairs /\ Nothing \notin Pairs /\ Garbage # Nothing
  BY SandboxAssumption
<1> QED
  BY <1>1, <1>2, <1>3, <1>4, <1>5, <1>6

(* The two pages parse their entries alike: a pair, or nothing.            *)
LEMMA ParsedPair ==
    ASSUME TypeOK
    PROVE  /\ Parsed(stored) \in Pairs \cup {Nothing}
           /\ stored # Garbage => Parsed(stored) = stored
           /\ Together(stored) => Together(Parsed(stored))
<1>1. Parsed(stored) = IF stored = Garbage THEN Nothing ELSE stored
  BY DEF Parsed, ParsedConfig, ParsedCredential, TypeOK
<1>2. Nothing \notin Pairs
  BY SandboxAssumption
<1> QED
  BY <1>1, <1>2 DEF TypeOK, Together, Complete

(* Assigning both inputs to an entry leaves nothing of it.                 *)
LEMMA MergedPair ==
    ASSUME TypeOK, NEW pair \in Pairs PROVE Merged(pair) = pair
<1> DEFINE current == IF Parsed(stored) = Nothing THEN Untyped ELSE Parsed(stored)
<1>1. DOMAIN current = Fields
  BY ParsedPair DEF Untyped, Pairs
<1>2. DOMAIN pair = Fields /\ pair = [field \in Fields |-> pair[field]]
  BY DEF Pairs
<1> HIDE DEF current
<1>3. [field \in DOMAIN pair \cup DOMAIN current |->
          IF field \in DOMAIN pair THEN pair[field] ELSE current[field]] = pair
  BY <1>1, <1>2
<1> QED
  BY <1>3 DEF Merged, current

(* What a widget stores: both inputs, or nothing.                          *)
LEMMA Persisted ==
    ASSUME TypeOK, NEW tab \in Tabs, NEW pair \in Pairs \cup {Nothing}, SetPersisted(tab, pair)
    PROVE  stored' = pair /\ shown' = [shown EXCEPT ![tab] = pair] /\ writer' = tab
<1>1. SetCredential(tab, pair)
  BY DEF SetPersisted, SetConfig
<1>2. (IF pair = Nothing THEN Nothing ELSE Merged(pair)) = pair
  BY MergedPair
<1> QED
  BY <1>1, <1>2 DEF SetCredential

(* The parts of the invariant, by the variables they are about.            *)
WidgetInv == WrittenParses /\ PairsStayTogether /\ WriterShowsEntry
PaneInv == EchoesInput /\ ShowsNewestAnswer

LEMMA InitInv == Init => IInv
<1> SUFFICES ASSUME Init PROVE IInv
  OBVIOUS
<1>2. \A tab \in Tabs : [field \in Fields |-> tab] \in Pairs
  BY DEF Pairs, Inputs
<1>3. TypeOK
  <2>1. /\ stored \in Pairs \cup {Nothing, Garbage} /\ writer \in Tabs \cup {Nothing}
        /\ kept \subseteq Pairs
    BY <1>2 DEF Init, Complete
  <2>2. /\ loaded \in [Tabs -> Pairs \cup {Nothing}] /\ shown \in [Tabs -> Pairs \cup {Nothing}]
        /\ typed \in [Tabs -> Pairs] /\ client \in [Tabs -> Pairs \cup {Nothing}]
        /\ at \in [Tabs -> {"closed", "open", "lost"}]
    BY Beginnings DEF Init
  <2>3. /\ input \in [Tabs -> 0 .. MaxChanges] /\ down \in [Tabs -> SUBSET Keys]
        /\ pasted \in [Tabs -> BOOLEAN] /\ sent \in [Tabs -> Seq(1 .. MaxChanges)]
        /\ pending \in [Tabs -> SUBSET (1 .. MaxSubmits)] /\ output \in [Tabs -> OutputType]
    BY Beginnings DEF Init
  <2> QED
    BY <2>1, <2>2, <2>3 DEF Init, TypeOK, OutputType
<1>4. Together(stored) /\ Together(Nothing)
  BY Beginnings DEF Init, Together, Complete
<1>5. WidgetInv
  BY <1>4 DEF Init, WidgetInv, WrittenParses, PairsStayTogether, WriterShowsEntry,
              Untyped
<1>6. PaneInv
  BY DEF Init, PaneInv, EchoesInput, ShowsNewestAnswer, Start
<1> QED
  BY <1>3, <1>5, <1>6 DEF IInv, WidgetInv, PaneInv

(* What the panes do leaves the widgets as they are, and the other way.    *)
LEMMA WidgetInvSame ==
    ASSUME WidgetInv, UNCHANGED <<page, entry, at, hooks>> PROVE WidgetInv'
BY DEF WidgetInv, entry, hooks, WrittenParses, PairsStayTogether, Together,
       WriterShowsEntry

LEMMA PaneInvSame == ASSUME PaneInv, UNCHANGED panes PROVE PaneInv'
BY DEF PaneInv, panes, EchoesInput, ShowsNewestAnswer

(* A tab is loaded: what it shows is what the entry has, and its client    *)
(* has that or nothing.                                                    *)
LEMMA LoadStep == ASSUME IInv, NEW tab \in Tabs, Load(tab) PROVE IInv'
<1> DEFINE pair == Parsed(stored)
           speaks == IF page = "ddn" THEN ClientOfDDN(pair) ELSE ClientOfSeafowl(pair)
<1>0. TypeOK /\ WidgetInv /\ PaneInv
  BY DEF IInv, WidgetInv, PaneInv
<1>1. /\ pair \in Pairs \cup {Nothing} /\ Together(pair)
      /\ stored # Garbage => pair = stored
  BY <1>0, ParsedPair DEF WidgetInv, PairsStayTogether
<1>2. speaks \in {pair, Nothing}
  BY DEF ClientOfDDN, ClientOfSeafowl
<1> HIDE DEF pair, speaks
<1>4. /\ at' = [at EXCEPT ![tab] = IF FailsToRender(pair) THEN "lost" ELSE "open"]
      /\ loaded' = [loaded EXCEPT ![tab] = pair]
      /\ shown' = [shown EXCEPT ![tab] = pair]
      /\ typed' = [typed EXCEPT ![tab] = Untyped]
      /\ client' = [client EXCEPT ![tab] = speaks]
      /\ input' = [input EXCEPT ![tab] = 0] /\ down' = [down EXCEPT ![tab] = {}]
      /\ pasted' = [pasted EXCEPT ![tab] = FALSE]
      /\ sent' = [sent EXCEPT ![tab] = << >>] /\ pending' = [pending EXCEPT ![tab] = {}]
      /\ output' = [output EXCEPT ![tab] = Start]
      /\ UNCHANGED <<page, use, stored, writer, kept>>
  BY DEF Load, pair, speaks, entry
<1>5. TypeOK'
  <2>1. /\ at' \in [Tabs -> {"closed", "open", "lost"}]
        /\ loaded' \in [Tabs -> Pairs \cup {Nothing}] /\ shown' \in [Tabs -> Pairs \cup {Nothing}]
        /\ typed' \in [Tabs -> Pairs] /\ client' \in [Tabs -> Pairs \cup {Nothing}]
    BY <1>0, <1>1, <1>2, <1>4, Beginnings DEF TypeOK
  <2>2. /\ input' \in [Tabs -> 0 .. MaxChanges] /\ down' \in [Tabs -> SUBSET Keys]
        /\ pasted' \in [Tabs -> BOOLEAN]
        /\ sent' \in [Tabs -> Seq(1 .. MaxChanges)]
        /\ pending' \in [Tabs -> SUBSET (1 .. MaxSubmits)]
        /\ output' \in [Tabs -> OutputType]
    BY <1>0, <1>4, Beginnings DEF TypeOK, OutputType
  <2> QED
    BY <1>0, <1>4, <2>1, <2>2 DEF TypeOK, OutputType
<1>6. WidgetInv'
  <2>1. WrittenParses'
    BY <1>0, <1>4 DEF WidgetInv, WrittenParses
  <2>2. PairsStayTogether'
    <3>1. Together(Nothing)
      BY SandboxAssumption DEF Together, Complete
    <3>2. \A any \in Pairs \cup {Nothing, Garbage} : Together(any)' <=> Together(any)
      BY <1>4 DEF Together
    <3> QED
      BY <1>0, <1>1, <1>2, <1>4, <3>1, <3>2 DEF WidgetInv, TypeOK, PairsStayTogether
  <2>4. WriterShowsEntry'
    BY <1>0, <1>1, <1>4 DEF WidgetInv, TypeOK, WriterShowsEntry, WrittenParses
  <2> QED
    BY <2>1, <2>2, <2>4 DEF WidgetInv
<1>7. PaneInv'
  BY <1>0, <1>4 DEF PaneInv, TypeOK, EchoesInput, ShowsNewestAnswer, Start
<1> QED
  BY <1>5, <1>6, <1>7 DEF IInv, WidgetInv, PaneInv

(* A widget stores a pair that was typed in it, or removes the entry.      *)
LEMMA PersistStep ==
    ASSUME IInv, NEW tab \in Tabs, NEW pair \in {typed[tab], Nothing}, SetPersisted(tab, pair),
           typed' = typed \/ typed' = [typed EXCEPT ![tab] = Untyped],
           kept \subseteq kept', kept' \subseteq kept \cup {typed[tab]},
           Complete(pair) => pair \in kept',
           UNCHANGED <<page, use, at, loaded, client, panes>>
    PROVE  IInv'
<1>0. TypeOK /\ WidgetInv /\ PaneInv
  BY DEF IInv, WidgetInv, PaneInv
<1>1. pair \in Pairs \cup {Nothing}
  BY <1>0 DEF TypeOK
<1>2. stored' = pair /\ shown' = [shown EXCEPT ![tab] = pair] /\ writer' = tab
  BY <1>0, <1>1, Persisted
<1>3. Together(pair)' /\ \A any : Together(any) => Together(any)'
  BY DEF Together
<1>4. TypeOK'
  <2>1. typed' \in [Tabs -> Pairs]
    BY <1>0, Beginnings DEF TypeOK
  <2>2. /\ stored' \in Pairs \cup {Nothing, Garbage} /\ writer' \in Tabs \cup {Nothing}
        /\ shown' \in [Tabs -> Pairs \cup {Nothing}] /\ kept' \subseteq Pairs
    BY <1>0, <1>1, <1>2 DEF TypeOK
  <2> QED
    BY <1>0, <2>1, <2>2 DEF TypeOK, panes
<1>5. WrittenParses'
  BY <1>1, <1>2, Beginnings DEF WrittenParses
<1>6. PairsStayTogether'
  BY <1>0, <1>2, <1>3 DEF WidgetInv, TypeOK, PairsStayTogether
<1>8. WriterShowsEntry'
  BY <1>0, <1>2 DEF TypeOK, WriterShowsEntry
<1>9. PaneInv'
  BY <1>0, PaneInvSame
<1> QED
  BY <1>4, <1>5, <1>6, <1>8, <1>9 DEF IInv, WidgetInv, PaneInv

LEMMA WidgetStep == ASSUME IInv, NEW tab \in Tabs, Widget(tab) PROVE IInv'
<1>0. TypeOK /\ WidgetInv /\ PaneInv
  BY DEF IInv, WidgetInv, PaneInv
<1>1. CASE OnClickSave(tab)
  BY <1>1, PersistStep DEF OnClickSave
<1>2. CASE OnClickClear(tab)
  BY <1>2, PersistStep, Beginnings DEF OnClickClear, Complete
<1>3. ASSUME NEW field \in Fields, NEW value \in {tab, ""}, Type(tab, field, value)
      PROVE  IInv'
  <2>1. typed' = [typed EXCEPT ![tab][field] = value]
        /\ UNCHANGED <<page, use, stored, writer, kept, at, loaded, shown, client, panes>>
    BY <1>3 DEF Type, entry
  <2>2. typed' \in [Tabs -> Pairs]
    BY <1>0, <2>1 DEF TypeOK, Pairs, Inputs
  <2>3. TypeOK'
    BY <1>0, <2>1, <2>2 DEF TypeOK, panes
  <2>4. WidgetInv'
    BY <1>0, <2>1, <2>2 DEF WidgetInv, WrittenParses, PairsStayTogether, Together,
                            WriterShowsEntry
  <2> QED
    BY <1>0, <2>1, <2>3, <2>4, PaneInvSame DEF IInv, WidgetInv, PaneInv
<1> QED
  BY <1>1, <1>2, <1>3 DEF Widget

(* A step of the panes leaves the other tabs and the widgets alone, and    *)
(* keeps the types of the tab's panes.                                     *)
OnlyPanesOf(tab) ==
    /\ input' = [input EXCEPT ![tab] = input'[tab]] /\ input'[tab] \in 0 .. MaxChanges
    /\ down' = [down EXCEPT ![tab] = down'[tab]] /\ down'[tab] \in SUBSET Keys
    /\ pasted' = [pasted EXCEPT ![tab] = pasted'[tab]] /\ pasted'[tab] \in BOOLEAN
    /\ sent' = [sent EXCEPT ![tab] = sent'[tab]] /\ sent'[tab] \in Seq(1 .. MaxChanges)
    /\ pending' = [pending EXCEPT ![tab] = pending'[tab]]
    /\ pending'[tab] \in SUBSET (1 .. MaxSubmits)
    /\ output' = [output EXCEPT ![tab] = output'[tab]] /\ output'[tab] \in OutputType
    /\ UNCHANGED unpaned

EchoesInputIn(tab) ==
    (output[tab].kind = "echo" /\ ~Changing(down[tab]) /\ ~pasted[tab])
        => output[tab].of = input[tab]
ShowsNewestAnswerIn(tab) ==
    (output[tab].kind = "answer" /\ ~output[tab].late)
        => output[tab].of + 1 .. Len(sent[tab]) \subseteq pending[tab]

LEMMA PaneStep ==
    ASSUME IInv, NEW tab \in Tabs, OnlyPanesOf(tab), EchoesInputIn(tab)', ShowsNewestAnswerIn(tab)'
    PROVE  IInv'
<1>0. TypeOK /\ WidgetInv /\ PaneInv
  BY DEF IInv, WidgetInv, PaneInv
<1>1. UNCHANGED <<page, use, stored, writer, kept, at, loaded, shown, typed, client>>
  BY DEF OnlyPanesOf, unpaned, entry, hooks
<1>2. /\ input' \in [Tabs -> 0 .. MaxChanges] /\ down' \in [Tabs -> SUBSET Keys]
      /\ pasted' \in [Tabs -> BOOLEAN] /\ sent' \in [Tabs -> Seq(1 .. MaxChanges)]
      /\ pending' \in [Tabs -> SUBSET (1 .. MaxSubmits)] /\ output' \in [Tabs -> OutputType]
  BY <1>0 DEF TypeOK, OutputType, OnlyPanesOf
<1>3. TypeOK'
  BY <1>0, <1>1, <1>2 DEF TypeOK, OutputType
<1>4. ASSUME NEW other \in Tabs, other # tab
      PROVE  /\ input'[other] = input[other] /\ down'[other] = down[other]
             /\ pasted'[other] = pasted[other] /\ sent'[other] = sent[other]
             /\ pending'[other] = pending[other] /\ output'[other] = output[other]
  BY <1>0, <1>4 DEF TypeOK, OnlyPanesOf
<1>5. EchoesInput'
  BY <1>0, <1>4 DEF PaneInv, EchoesInput, EchoesInputIn
<1>6. ShowsNewestAnswer'
  BY <1>0, <1>4 DEF PaneInv, ShowsNewestAnswer, ShowsNewestAnswerIn
<1>7. WidgetInv'
  BY <1>0, <1>1, WidgetInvSame DEF entry, hooks
<1> QED
  BY <1>3, <1>5, <1>6, <1>7 DEF IInv, WidgetInv, PaneInv

LEMMA EchoType ==
    ASSUME NEW text \in 0 .. MaxChanges
    PROVE  Echo(text) \in OutputType /\ Echo(text).kind = "echo" /\ Echo(text).of = text
BY Beginnings DEF Echo, OutputType

LEMMA AnswerType ==
    ASSUME NEW n \in 1 .. MaxSubmits, NEW late \in BOOLEAN
    PROVE  /\ Answer(n, late) \in OutputType /\ Answer(n, late).kind = "answer"
           /\ Answer(n, late).of = n /\ Answer(n, late).late = late
BY Beginnings DEF Answer, OutputType

(* The panes of one tab, of their types, as the invariant has them.        *)
LEMMA PanesOfTab ==
    ASSUME IInv, NEW tab \in Tabs
    PROVE  /\ input[tab] \in 0 .. MaxChanges /\ down[tab] \in SUBSET Keys
           /\ pasted[tab] \in BOOLEAN /\ sent[tab] \in Seq(1 .. MaxChanges)
           /\ Len(sent[tab]) \in Nat
           /\ pending[tab] \in SUBSET (1 .. MaxSubmits) /\ output[tab] \in OutputType
           /\ EchoesInputIn(tab) /\ ShowsNewestAnswerIn(tab)
           /\ input = [input EXCEPT ![tab] = input[tab]] /\ down = [down EXCEPT ![tab] = down[tab]]
           /\ pasted = [pasted EXCEPT ![tab] = pasted[tab]]
           /\ sent = [sent EXCEPT ![tab] = sent[tab]]
           /\ pending = [pending EXCEPT ![tab] = pending[tab]]
           /\ output = [output EXCEPT ![tab] = output[tab]]
<1>1. TypeOK /\ EchoesInput /\ ShowsNewestAnswer
  BY DEF IInv
<1>2. EchoesInputIn(tab) /\ ShowsNewestAnswerIn(tab)
  BY <1>1 DEF EchoesInput, ShowsNewestAnswer, EchoesInputIn, ShowsNewestAnswerIn
<1> QED
  BY <1>1, <1>2 DEF TypeOK, OutputType

LEMMA PaneDomains ==
    ASSUME IInv
    PROVE  /\ DOMAIN input = Tabs /\ DOMAIN down = Tabs /\ DOMAIN pasted = Tabs
           /\ DOMAIN sent = Tabs /\ DOMAIN pending = Tabs /\ DOMAIN output = Tabs
BY DEF IInv, TypeOK

(* A key is pressed: if it may change the input the echo is left behind    *)
(* until it is released.                                                   *)
LEMMA KeyDownStep == ASSUME IInv, NEW tab \in Tabs, NEW key \in Keys, KeyDown(tab, key) PROVE IInv'
<1>1. /\ key = "letter" \/ (key = "Enter" /\ "Meta" \notin down[tab])
      /\ down[tab] \cup {key} \in SUBSET Keys
  BY PanesOfTab DEF KeyDown
<1>2. PICK text \in 0 .. MaxChanges :
          /\ input' = [input EXCEPT ![tab] = text]
          /\ down' = [down EXCEPT ![tab] = down[tab] \cup {key}]
          /\ pasted' = [pasted EXCEPT ![tab] = FALSE]
          /\ output' = [output EXCEPT ![tab] = Echo(input[tab])]
          /\ UNCHANGED <<unpaned, sent, pending>>
  <2>1. CASE Change(tab)
    <3>1. input[tab] + 1 \in 0 .. MaxChanges /\ input' = [input EXCEPT ![tab] = input[tab] + 1]
      BY <2>1, PanesOfTab, Beginnings DEF Change
    <3> QED
      BY <3>1 DEF KeyDown, OnChangeInput
  <2>2. CASE UNCHANGED input
    BY <2>2, PanesOfTab DEF KeyDown, OnChangeInput
  <2> QED
    BY <2>1, <2>2 DEF KeyDown
<1>3. OnlyPanesOf(tab)
  BY <1>1, <1>2, PaneDomains, PanesOfTab, EchoType DEF OnlyPanesOf
<1>4. output'[tab].kind = "echo" /\ down'[tab] = down[tab] \cup {key}
  BY <1>2, PaneDomains, PanesOfTab, EchoType
<1>5. Changing(down'[tab])
  BY <1>1, <1>4 DEF Changing
<1>6. EchoesInputIn(tab)' /\ ShowsNewestAnswerIn(tab)'
  BY <1>4, <1>5 DEF EchoesInputIn, ShowsNewestAnswerIn
<1> QED
  BY <1>3, <1>6, PaneStep

LEMMA KeyDownMetaStep == ASSUME IInv, NEW tab \in Tabs, KeyDownMeta(tab) PROVE IInv'
<1>1. down[tab] \cup {"Meta"} \in SUBSET Keys
  BY PanesOfTab DEF Keys
<1>2. /\ down' = [down EXCEPT ![tab] = down[tab] \cup {"Meta"}]
      /\ pasted' = [pasted EXCEPT ![tab] = FALSE]
      /\ output' = [output EXCEPT ![tab] = Echo(input[tab])]
      /\ UNCHANGED <<unpaned, input, sent, pending>>
  BY DEF KeyDownMeta, OnChangeInput
<1>3. OnlyPanesOf(tab)
  BY <1>1, <1>2, PaneDomains, PanesOfTab, EchoType DEF OnlyPanesOf
<1>4. output'[tab].kind = "echo" /\ output'[tab].of = input'[tab]
  BY <1>2, PaneDomains, PanesOfTab, EchoType
<1> QED
  BY <1>3, <1>4, PaneStep DEF EchoesInputIn, ShowsNewestAnswerIn

(* A submission is pending, so all that come after an answer's still are.  *)
LEMMA KeyDownEnterStep == ASSUME IInv, NEW tab \in Tabs, KeyDownEnter(tab) PROVE IInv'
<1>1. /\ OnSubmitInput(tab) /\ down' = [down EXCEPT ![tab] = down[tab] \cup {"Enter"}]
      /\ UNCHANGED <<unpaned, input, pasted, output>>
  BY DEF KeyDownEnter
<1>2. /\ down'[tab] \in SUBSET Keys /\ down' = [down EXCEPT ![tab] = down'[tab]]
      /\ Changing(down'[tab]) <=> Changing(down[tab])
  <2>1. "Meta" \in down[tab] /\ down'[tab] = down[tab] \cup {"Enter"}
    BY <1>1, PaneDomains DEF KeyDownEnter
  <2>2. Changing(down'[tab]) <=> Changing(down[tab])
    BY <2>1 DEF Changing
  <2> QED
    BY <1>1, <2>1, <2>2, PaneDomains, PanesOfTab DEF Keys
<1>3. EchoesInputIn(tab)'
  <2>1. UNCHANGED <<input, pasted, output>>
    BY <1>1
  <2> QED
    BY <1>2, <2>1, PanesOfTab DEF EchoesInputIn
<1>4. CASE input[tab] = 0
  <2>1. UNCHANGED <<sent, pending>>
    BY <1>1, <1>4 DEF OnSubmitInput
  <2>2. OnlyPanesOf(tab) /\ ShowsNewestAnswerIn(tab)'
    BY <1>1, <1>2, <2>1, PanesOfTab DEF OnlyPanesOf, ShowsNewestAnswerIn
  <2> QED
    BY <1>3, <2>2, PaneStep
<1>5. CASE input[tab] # 0
  <2>1. /\ Len(sent[tab]) < MaxSubmits
        /\ sent' = [sent EXCEPT ![tab] = Append(sent[tab], input[tab])]
        /\ pending' = [pending EXCEPT ![tab] = pending[tab] \cup {Len(sent[tab]) + 1}]
    BY <1>1, <1>5 DEF OnSubmitInput
  <2>2. input[tab] \in 1 .. MaxChanges
    BY <1>5, PanesOfTab, Beginnings
  <2>3. /\ sent'[tab] \in Seq(1 .. MaxChanges) /\ Len(sent'[tab]) = Len(sent[tab]) + 1
        /\ sent' = [sent EXCEPT ![tab] = sent'[tab]]
    BY <2>1, <2>2, PaneDomains, PanesOfTab
  <2>4. /\ pending'[tab] = pending[tab] \cup {Len(sent[tab]) + 1}
        /\ pending' = [pending EXCEPT ![tab] = pending'[tab]]
    BY <2>1, PaneDomains
  <2>5. pending'[tab] \in SUBSET (1 .. MaxSubmits)
    BY <2>1, <2>4, PanesOfTab, Beginnings
  <2>6. OnlyPanesOf(tab)
    BY <1>1, <1>2, <2>3, <2>4, <2>5, PanesOfTab DEF OnlyPanesOf
  <2>7. ShowsNewestAnswerIn(tab)'
    <3>1. output[tab].of \in Nat /\ output' = output
      BY <1>1, PanesOfTab DEF OutputType
    <3> QED
      BY <2>3, <2>4, <3>1, PanesOfTab DEF ShowsNewestAnswerIn
  <2> QED
    BY <1>3, <2>6, <2>7, PaneStep
<1> QED
  BY <1>4, <1>5

(* A key is released: the echo catches up, unless it was the Enter of a    *)
(* submission, which left it as it was.                                    *)
LEMMA KeyUpStep == ASSUME IInv, NEW tab \in Tabs, NEW key \in Keys, KeyUp(tab, key) PROVE IInv'
<1>1. down' = [down EXCEPT ![tab] = down[tab] \ {key}] /\ UNCHANGED <<unpaned, input, sent, pending>>
  BY DEF KeyUp
<1>2. /\ down'[tab] = down[tab] \ {key} /\ down'[tab] \in SUBSET Keys
      /\ down' = [down EXCEPT ![tab] = down'[tab]]
  BY <1>1, PaneDomains, PanesOfTab
<1>3. CASE key = "Enter" /\ "Meta" \in down[tab]
  <2>1. UNCHANGED <<output, pasted>> /\ (Changing(down'[tab]) <=> Changing(down[tab]))
    BY <1>2, <1>3 DEF KeyUp, Changing
  <2>2. OnlyPanesOf(tab)
    BY <1>1, <1>2, <2>1, PanesOfTab DEF OnlyPanesOf
  <2>3. EchoesInputIn(tab)' /\ ShowsNewestAnswerIn(tab)'
    BY <1>1, <2>1, PanesOfTab DEF EchoesInputIn, ShowsNewestAnswerIn
  <2> QED
    BY <2>2, <2>3, PaneStep
<1>4. CASE ~(key = "Enter" /\ "Meta" \in down[tab])
  <2>1. /\ pasted' = [pasted EXCEPT ![tab] = FALSE]
        /\ output' = [output EXCEPT ![tab] = Echo(input[tab])]
    BY <1>4 DEF KeyUp, OnChangeInput
  <2>2. OnlyPanesOf(tab)
    BY <1>1, <1>2, <2>1, PaneDomains, PanesOfTab, EchoType DEF OnlyPanesOf
  <2>3. output'[tab].kind = "echo" /\ output'[tab].of = input'[tab]
    BY <1>1, <2>1, PaneDomains, PanesOfTab, EchoType
  <2> QED
    BY <2>2, <2>3, PaneStep DEF EchoesInputIn, ShowsNewestAnswerIn
<1> QED
  BY <1>3, <1>4

LEMMA PasteStep == ASSUME IInv, NEW tab \in Tabs, Paste(tab) PROVE IInv'
<1>1. input[tab] + 1 \in 0 .. MaxChanges
  BY PanesOfTab, Beginnings DEF Paste, Change
<1>2. /\ input' = [input EXCEPT ![tab] = input[tab] + 1]
      /\ pasted' = [pasted EXCEPT ![tab] = TRUE]
      /\ UNCHANGED <<unpaned, down, sent, pending, output>>
  BY DEF Paste, Change
<1>3. OnlyPanesOf(tab) /\ pasted'[tab]
  BY <1>1, <1>2, PaneDomains, PanesOfTab DEF OnlyPanesOf
<1>4. EchoesInputIn(tab)' /\ ShowsNewestAnswerIn(tab)'
  BY <1>2, <1>3, PanesOfTab DEF EchoesInputIn, ShowsNewestAnswerIn
<1> QED
  BY <1>3, <1>4, PaneStep

(* An answer arrives: it is late, or every later submission is pending.    *)
LEMMA OnAnswerStep ==
    ASSUME IInv, NEW tab \in Tabs, NEW n \in pending[tab], OnAnswer(tab, n) PROVE IInv'
<1> DEFINE late == Overtaken(tab, n)
<1>1. n \in 1 .. MaxSubmits /\ n \in Nat /\ late \in BOOLEAN
  BY PanesOfTab, Beginnings DEF Overtaken
<1>2. ~late => n + 1 .. Len(sent[tab]) \subseteq pending[tab] \ {n}
  BY <1>1, PanesOfTab DEF Overtaken
<1>3. /\ pending' = [pending EXCEPT ![tab] = pending[tab] \ {n}]
      /\ output' = [output EXCEPT ![tab] = Answer(n, late)]
      /\ UNCHANGED <<unpaned, input, down, pasted, sent>>
  BY DEF OnAnswer
<1> HIDE DEF late
<1>4. OnlyPanesOf(tab)
  BY <1>1, <1>3, PaneDomains, PanesOfTab, AnswerType DEF OnlyPanesOf
<1>5. /\ output'[tab] = Answer(n, late) /\ pending'[tab] = pending[tab] \ {n} /\ sent' = sent
  BY <1>3, PaneDomains
<1>6. EchoesInputIn(tab)' /\ ShowsNewestAnswerIn(tab)'
  BY <1>1, <1>2, <1>5, AnswerType DEF EchoesInputIn, ShowsNewestAnswerIn
<1> QED
  BY <1>4, <1>6, PaneStep

LEMMA NextInv == IInv /\ [Next]_vars => IInv'
<1> SUFFICES ASSUME IInv, [Next]_vars PROVE IInv'
  OBVIOUS
<1>1. ASSUME NEW tab \in Tabs, AuthWidget(tab) \/ ConfigWidget(tab) PROVE IInv'
  BY <1>1, WidgetStep DEF AuthWidget, ConfigWidget
<1>2. ASSUME NEW tab \in Tabs, SplitPaneInputOutput(tab) PROVE IInv'
  BY <1>2, KeyDownStep, KeyDownMetaStep, KeyDownEnterStep, KeyUpStep, PasteStep, OnAnswerStep
  DEF SplitPaneInputOutput
<1>3. CASE UNCHANGED vars
  <2>0. TypeOK /\ WidgetInv /\ PaneInv
    BY DEF IInv, WidgetInv, PaneInv
  <2>1. UNCHANGED <<page, use, entry, at, hooks, panes>>
    BY <1>3 DEF vars
  <2>2. TypeOK'
    BY <2>0, <2>1 DEF TypeOK, entry, hooks, panes
  <2> QED
    BY <2>0, <2>1, <2>2, WidgetInvSame, PaneInvSame DEF IInv, WidgetInv, PaneInv
<1> QED
  BY <1>1, <1>2, <1>3, LoadStep DEF Next

(* The inductive invariant of the pages.                                   *)
THEOREM Inductive == Spec => []IInv
  BY InitInv, NextInv, PTL DEF Spec

(* The types of the pages' state, for any bounds.                          *)
THEOREM TypeCorrect == Spec => []TypeOK
<1>1. IInv => TypeOK
  BY DEF IInv
<1> QED
  BY <1>1, Inductive, PTL

(* Values that no single click saved never meet, whichever tabs save,      *)
(* clear and load.                                                         *)
THEOREM SavedTogether == Spec => []PairsStayTogether
<1>1. IInv => PairsStayTogether
  BY DEF IInv
<1> QED
  BY <1>1, Inductive, PTL

(* The widget that wrote the entry last shows it.                          *)
THEOREM LastWriterShows == Spec => []WriterShowsEntry
<1>1. IInv => WriterShowsEntry
  BY DEF IInv
<1> QED
  BY <1>1, Inductive, PTL

(* With no key held that changes it and nothing pasted, an echo is that of *)
(* the input.                                                              *)
THEOREM EchoKeepsUp == Spec => []EchoesInput
<1>1. IInv => EchoesInput
  BY DEF IInv
<1> QED
  BY <1>1, Inductive, PTL

(* An answer in the pane is late, or those of all later submissions are    *)
(* out, however many there are.                                            *)
THEOREM NewestAnswerShown == Spec => []ShowsNewestAnswer
<1>1. IInv => ShowsNewestAnswer
  BY DEF IInv
<1> QED
  BY <1>1, Inductive, PTL
=============================================================================
