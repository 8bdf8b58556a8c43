------------------------------ MODULE Listeners ------------------------------
(***************************************************************************)
(* What is called back: EventBus calls the handlers of an event one after  *)
(* the other, from a copy of its list; HookManager calls the lifecycle     *)
(* hooks one after the other, from the list itself.  Both await each call, *)
(* and steps run concurrently, so events and hooks overlap and the lists   *)
(* change in the middle.  Handlers here are subscriptions: each has its    *)
(* own number, and a hook is registered at most once.                      *)
(***************************************************************************)
EXTENDS Naturals, SequencesExt

CONSTANTS Handlers,     \* bound: the subscriptions, of one type of event and of all
          Emission,     \* the emissions of the event in progress
          Hooks,        \* bound: the hooks registered
          HookRun,      \* the runs of one type of hook in progress
          MaxListenCalls \* bound: the emissions and runs

ASSUME ListenersAssumption == Handlers \in Nat /\ Hooks \in Nat /\ MaxListenCalls \in Nat

VARIABLES
  typed, wild, \* listeners of the type, wildcardListeners
  subscribed,  \* how many subscriptions there were
  onceOnly,    \* those made by once
  toCall,      \* toCall[e]: the handlers that emission e has not come to
  fired,       \* history: fired[h], how often h was called, up to 2
  excused,     \* history: handlers that threw, or were in the copy of another
               \* emission when they were called
  hooks,       \* hooks
  registered,  \* how many hooks were registered
  hookRun,     \* hookRun[r]: the list it walks, how many it has called, and which
  listenCalls

busVars == <<typed, wild, subscribed, onceOnly, toCall, fired, excused>>
hookVars == <<hooks, registered, hookRun>>
listenVars == <<busVars, hookVars, listenCalls>>

Handler == 1 .. Handlers
Hook == 1 .. Hooks
NoRun == [on |-> FALSE, live |-> TRUE, list |-> <<>>, at |-> 0, called |-> {}, owed |-> {}]

ListenTypeOK ==
  /\ typed \in Seq(Handler) /\ wild \in Seq(Handler) /\ subscribed \in 0 .. Handlers
  /\ onceOnly \cup excused \subseteq Handler
  /\ toCall \in [Emission -> Seq(Handler)] /\ fired \in [Handler -> 0 .. 2]
  /\ hooks \in Seq(Hook) /\ registered \in 0 .. Hooks
  /\ hookRun \in [HookRun -> [on : BOOLEAN, live : BOOLEAN, list : Seq(Hook), at : 0 .. Hooks,
                              called : SUBSET Hook, owed : SUBSET Hook]]
  /\ listenCalls \in 0 .. MaxListenCalls

ListenInit ==
  /\ typed = <<>> /\ wild = <<>> /\ subscribed = 0 /\ onceOnly = {} /\ excused = {}
  /\ toCall = [e \in Emission |-> <<>>] /\ fired = [h \in Handler |-> 0]
  /\ hooks = <<>> /\ registered = 0 /\ hookRun = [r \in HookRun |-> NoRun]
  /\ listenCalls = 0

-----------------------------------------------------------------------------
\* indexOf and splice.
Without(list, h) == RemoveFirst(list, h)

\* on, for the type or for "*", and once.
Subscribes(once, all) ==
  /\ subscribed < Handlers
  /\ subscribed' = subscribed + 1
  /\ onceOnly' = IF once THEN onceOnly \cup {subscribed'} ELSE onceOnly
  /\ IF all THEN wild' = Append(wild, subscribed') /\ UNCHANGED typed
            ELSE typed' = Append(typed, subscribed') /\ UNCHANGED wild
  /\ UNCHANGED <<toCall, fired, excused, hookVars, listenCalls>>

\* The function that on returns is called; once returns none.
Unsubscribes(h) ==
  /\ h \in (ToSet(typed) \cup ToSet(wild)) \ onceOnly
  /\ typed' = Without(typed, h) /\ wild' = Without(wild, h)
  /\ UNCHANGED <<subscribed, onceOnly, toCall, fired, excused, hookVars, listenCalls>>

\* off and clear.
Off(all) ==
  /\ typed # <<>> \/ (all /\ wild # <<>>)
  /\ typed' = <<>> /\ wild' = IF all THEN <<>> ELSE wild
  /\ UNCHANGED <<subscribed, onceOnly, toCall, fired, excused, hookVars, listenCalls>>

\* emit copies the lists.
Emits(e) ==
  /\ toCall[e] = <<>> /\ typed \o wild # <<>>
  /\ listenCalls < MaxListenCalls /\ listenCalls' = listenCalls + 1
  /\ toCall' = [toCall EXCEPT ![e] = typed \o wild]
  /\ UNCHANGED <<typed, wild, subscribed, onceOnly, fired, excused, hookVars>>

\* The handler ends; a throw is caught.  The wrapper of once unsubscribes the
\* handler after it has returned.
Unwraps_Never(h, threw) == UNCHANGED <<typed, wild>>

Unwraps(h, threw) ==
  IF h \in onceOnly /\ ~threw THEN typed' = Without(typed, h) /\ wild' = Without(wild, h)
                              ELSE UNCHANGED <<typed, wild>>

CallsHandler(e, threw) ==
  LET h == Head(toCall[e])
  IN /\ toCall[e] # <<>>
     /\ toCall' = [toCall EXCEPT ![e] = Tail(@)]
     /\ fired' = [fired EXCEPT ![h] = IF @ < 2 THEN @ + 1 ELSE @]
     /\ excused' = IF threw \/ \E f \in Emission \ {e} : h \in ToSet(toCall[f])
                   THEN excused \cup {h} ELSE excused
     /\ Unwraps(h, threw)
     /\ UNCHANGED <<subscribed, onceOnly, hookVars, listenCalls>>

-----------------------------------------------------------------------------
Walked(r) == IF hookRun[r].live THEN hooks ELSE hookRun[r].list

\* register and registerMany.
Registers ==
  /\ registered < Hooks
  /\ registered' = registered + 1
  /\ hooks' = Append(hooks, registered')
  /\ UNCHANGED <<hookRun, busVars, listenCalls>>

\* unregister splices the list under the runs that walk it: what stood next
\* moves to a place that such a run has passed, and the run owes it nothing.
Overlooked(r, i) == {hooks[j] : j \in {j \in DOMAIN hooks : i <= hookRun[r].at /\ j = hookRun[r].at + 1}}

Unregisters(i) ==
  /\ i \in DOMAIN hooks
  /\ hooks' = RemoveAt(hooks, i)
  /\ hookRun' = [r \in HookRun |-> [hookRun[r] EXCEPT !.owed = @ \ ({hooks[i]} \cup Overlooked(r, i))]]
  /\ UNCHANGED <<registered, busVars, listenCalls>>

\* clear makes a new list; runs go on with the old one.
ClearsHooks ==
  /\ hooks # <<>>
  /\ hooks' = <<>>
  /\ hookRun' = [r \in HookRun |-> IF hookRun[r].on /\ hookRun[r].live
                                   THEN [hookRun[r] EXCEPT !.live = FALSE, !.list = hooks]
                                   ELSE hookRun[r]]
  /\ UNCHANGED <<registered, busVars, listenCalls>>

\* run, which calls the first hook at once.
HooksStart(r) ==
  /\ ~hookRun[r].on /\ hooks # <<>>
  /\ listenCalls < MaxListenCalls /\ listenCalls' = listenCalls + 1
  /\ hookRun' = [hookRun EXCEPT ![r] = [NoRun EXCEPT !.on = TRUE, !.at = 1, !.called = {hooks[1]},
                                                     !.owed = ToSet(hooks)]]
  /\ UNCHANGED <<hooks, registered, busVars>>

\* The next hook is called.
CallsHook_Again(r) ==
  /\ hookRun[r].on /\ hookRun[r].at < Len(Walked(r))
  /\ hookRun' = [hookRun EXCEPT ![r].at = @ + 1,
                                ![r].called = @ \cup {Walked(r)[1]}]
  /\ UNCHANGED <<hooks, registered, busVars, listenCalls>>

CallsHook(r) ==
  /\ hookRun[r].on /\ hookRun[r].at < Len(Walked(r))
  /\ hookRun' = [hookRun EXCEPT ![r].at = @ + 1,
                                ![r].called = @ \cup {Walked(r)[hookRun[r].at + 1]}]
  /\ UNCHANGED <<hooks, registered, busVars, listenCalls>>

\* It ends with the list, or with a hook that throws under failOnHookError.
HooksEnd(r) ==
  /\ hookRun[r].on
  /\ hookRun' = [hookRun EXCEPT ![r] = NoRun]
  /\ UNCHANGED <<hooks, registered, busVars, listenCalls>>

BusNext ==
  \/ \E once, all \in BOOLEAN : Subscribes(once, all)
  \/ \E h \in Handler : Unsubscribes(h)
  \/ \E all \in BOOLEAN : Off(all)
  \/ \E e \in Emission : Emits(e) \/ \E threw \in BOOLEAN : CallsHandler(e, threw)

HookNext ==
  \/ Registers \/ ClearsHooks
  \/ \E i \in Hook : Unregisters(i)
  \/ \E r \in HookRun : HooksStart(r) \/ CallsHook(r) \/ HooksEnd(r)

ListenNext == BusNext \/ HookNext

ListenSpec == ListenInit /\ [][ListenNext]_listenVars

-----------------------------------------------------------------------------
(***************************************************************************)
(* Properties                                                              *)
(***************************************************************************)
\* A handler that once subscribes is called twice only if it threw, or another
\* emission had copied the list before it was called.
OnceIsOnce == \A h \in onceOnly : fired[h] > 1 => h \in excused

\* A run of hooks that comes to the end of its list has called every hook that
\* was registered from its start to its end, but for one that the removal of
\* another hook made it overlook; and it calls none twice.
HooksAreCalled ==
  \A r \in HookRun :
    LET walk == hookRun[r]
    IN /\ walk.on /\ walk.at >= Len(Walked(r)) => walk.owed \subseteq walk.called
       /\ \A j \in DOMAIN Walked(r) : walk.on /\ j > walk.at => Walked(r)[j] \notin walk.called

ListenersSafe == OnceIsOnce /\ HooksAreCalled
=============================================================================
