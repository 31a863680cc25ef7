---------------------------- MODULE EventTarget ----------------------------
(***************************************************************************)
(* makeEventTarget: subscriptions to the events of a DOM EventTarget, each *)
(* with a cleanup of its own, and one cleanup for all of them.             *)
(*                                                                         *)
(* All is synchronous, but listeners run inside dispatch and may subscribe,*)
(* clean up and dispatch themselves: the stack of dispatches in progress   *)
(* is part of the state.  The order in which the listeners of one event    *)
(* run is left open.                                                       *)
(***************************************************************************)
EXTENDS Naturals, Sequences

CONSTANTS
    Events,          \* names of events
    Listeners,       \* listener functions; one may be passed to on() again
    Subscriptions,   \* calls of on()
    MaxDepth,        \* bound: how deep dispatches nest
    None             \* no call of on() yet

ASSUME EventTargetAssumption ==
    /\ MaxDepth \in Nat
    /\ None \notin Events \X Listeners

VARIABLES
    attached,    \* the pairs of event and listener the EventTarget has
    callbacks,   \* the subscriptions whose remove() is in cleanupCallbacks
    subscribed,  \* what each call of on() subscribed, or None
    frames       \* the dispatches in progress, the innermost first

vars == <<attached, callbacks, subscribed, frames>>

Pairs == Events \X Listeners

\* pending: the listeners to run; entered: whether one has run already.
Frame == [event : Events, pending : SUBSET Listeners, entered : BOOLEAN]

TypeOK ==
    /\ attached \subseteq Pairs
    /\ callbacks \subseteq Subscriptions
    /\ subscribed \in [Subscriptions -> Pairs \cup {None}]
    /\ frames \in Seq(Frame)

Init ==
    /\ attached = {}
    /\ callbacks = {}
    /\ subscribed = [s \in Subscriptions |-> None]
    /\ frames = << >>

\* Code of the application runs: outside of any dispatch, or in a listener.
Running == frames # << >> => Head(frames).entered

\* removeEventListener: a dispatch in progress skips a removed listener.
Without(removed) ==
    [i \in DOMAIN frames |->
        [frames[i] EXCEPT !.pending = {l \in @ : <<frames[i].event, l>> \notin removed}]]

-----------------------------------------------------------------------------
\* Mutant: only a listener that was not attached yet registers its remove().
OnOnce(s, pair) ==
    /\ Running
    /\ subscribed[s] = None
    /\ subscribed' = [subscribed EXCEPT ![s] = pair]
    /\ attached' = attached \cup {pair}
    /\ callbacks' = IF \E t \in Subscriptions : subscribed[t] = pair THEN callbacks
                    ELSE callbacks \cup {s}
    /\ UNCHANGED frames

\* on(event, listener); attaching an attached listener again changes nothing.
On(s, pair) ==
    /\ Running
    /\ subscribed[s] = None
    /\ subscribed' = [subscribed EXCEPT ![s] = pair]
    /\ attached' = attached \cup {pair}
    /\ callbacks' = callbacks \cup {s}
    /\ UNCHANGED frames

\* Mutant: remove() is taken off the list but not called.
UnsubscribeKeepingListener(s) ==
    /\ Running
    /\ subscribed[s] # None
    /\ callbacks' = callbacks \ {s}
    /\ UNCHANGED <<attached, frames, subscribed>>

\* The cleanup that on() returned, called any number of times.
Unsubscribe(s) ==
    /\ Running
    /\ subscribed[s] # None
    /\ attached' = attached \ {subscribed[s]}
    /\ frames' = Without({subscribed[s]})
    /\ callbacks' = callbacks \ {s}
    /\ UNCHANGED subscribed

\* The outer cleanup calls every remove(), and keeps the list.
Cleanup ==
    /\ Running
    /\ LET removed == {subscribed[s] : s \in callbacks}
       IN  /\ attached' = attached \ removed
           /\ frames' = Without(removed)
    /\ UNCHANGED <<callbacks, subscribed>>

\* dispatch(event, payload)
Dispatch(event) ==
    /\ Running /\ Len(frames) < MaxDepth
    /\ frames' = <<[event |-> event, pending |-> {l \in Listeners : <<event, l>> \in attached},
                    entered |-> FALSE]>> \o frames
    /\ UNCHANGED <<attached, callbacks, subscribed>>

\* The EventTarget runs the next listener of the innermost dispatch.
Deliver(listener) ==
    /\ frames # << >> /\ listener \in Head(frames).pending
    /\ frames' = [frames EXCEPT ![1].pending = @ \ {listener}, ![1].entered = TRUE]
    /\ UNCHANGED <<attached, callbacks, subscribed>>

\* All have run: dispatch returns to its caller.
Return ==
    /\ frames # << >> /\ Head(frames).pending = {}
    /\ frames' = Tail(frames)
    /\ UNCHANGED <<attached, callbacks, subscribed>>

Next ==
    \/ \E s \in Subscriptions : (\E pair \in Pairs : On(s, pair)) \/ Unsubscribe(s)
    \/ Cleanup
    \/ \E event \in Events : Dispatch(event)
    \/ \E listener \in Listeners : Deliver(listener)
    \/ Return

Spec == Init /\ [][Next]_vars

-----------------------------------------------------------------------------
(* The outer cleanup reaches every listener: each one that is attached has *)
(* its remove() in cleanupCallbacks, although cleanups take theirs off the *)
(* list and a listener may be subscribed several times.                    *)
Reachable == \A pair \in attached : \E s \in callbacks : subscribed[s] = pair

(* A dispatch only runs listeners with a subscription that was not cleaned *)
(* up: none runs after its cleanup, not even when a listener that ran      *)
(* before it in the same dispatch called it.                               *)
RunsSubscribed ==
    \A i \in DOMAIN frames : \A l \in frames[i].pending :
        \E s \in callbacks : subscribed[s] = <<frames[i].event, l>>

\* What a dispatch is about to run is attached.
RunsAttached ==
    \A i \in DOMAIN frames : \A l \in frames[i].pending : <<frames[i].event, l>> \in attached

(* The inductive invariant behind these two and what a cleanup leaves.     *)
IInv ==
    /\ TypeOK
    /\ Reachable
    /\ RunsAttached

(* After the outer cleanup nothing is attached and no dispatch in progress *)
(* runs another listener.                                                  *)
CleansUp ==
    [][Cleanup => attached' = {} /\ \A i \in DOMAIN frames' : frames'[i].pending = {}]_vars
=============================================================================
