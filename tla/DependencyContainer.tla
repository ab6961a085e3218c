--------------------------- MODULE DependencyContainer ---------------------------
(***************************************************************************)
(* A DependencyContainer whose singletons are resolved, replaced,          *)
(* unregistered and shut down by several threads (dependency/container.py, *)
(* the InitializationGate of dependency/registration.py and the            *)
(* ResourceTracker of dependency/lifecycle.py).                            *)
(*                                                                         *)
(* A provider is a registration of a token and has a gate; the one thread  *)
(* that claims the gate creates the instance and the others wait.  An      *)
(* action is one section under a lock or one call of a factory or close(). *)
(***************************************************************************)
EXTENDS Naturals, Sequences, FiniteSets

CONSTANTS
  Tokens,
  Depends,           \* the tokens of a factory's parameters, in their order
  Threads,
  NoThread,
  Commands,          \* what each thread does with the container
  Replaceable,       \* the tokens that register() is called for
  CloseMayFail,      \* whether close() of an instance may raise
  FactoryMayFail,    \* whether a factory may raise
  MaxRegistrations   \* bound: registrations of a token

ASSUME ContainerAssumption ==
  /\ Depends \in [Tokens -> Seq(Tokens)]
  /\ NoThread \notin Threads
  /\ Commands \in [Threads -> SUBSET {"resolve", "unregister", "register", "shutdown"}]
  /\ Replaceable \subseteq Tokens
  /\ CloseMayFail \in BOOLEAN /\ FactoryMayFail \in BOOLEAN
  /\ MaxRegistrations \in Nat \ {0}

Numbers == 1..MaxRegistrations
Providers == Tokens \X Numbers
Instances == Providers \X (Nat \ {0})
NoInstance == <<>>
NoToken == <<>>
ShutdownDone == "shutdown"  \* what a second caller of shutdown() waits for

VARIABLES
  provider,       \* _providers: the number of the token's registration, or 0
  registrations,  \* how often the token was registered
  cached,         \* provider.singleton of the token
  created,        \* how many instances each provider has created
  owner,          \* gate._owner, while the gate is _initializing
  retired,        \* the providers whose gate is _retired
  waitsFor,       \* _OWNER_WAITS_FOR
  tracked,        \* the instances in the ResourceTracker
  disposing,      \* those in its _disposing
  disposed,       \* the instances whose close() has returned
  disposals,      \* the tokens in _disposal_attempts
  pending,        \* _pending_disposals
  shutter,        \* the owner of _shutdown_attempt
  closed, cleanupFailed,
  pc,
  stack,          \* the providers each thread is resolving, each for the next
  target,         \* the token a thread unregisters or registers
  replaces,       \* whether it unregisters to register anew
  toRetire,       \* the tokens whose gate its shutdown has yet to retire
  toClose,        \* the instances it has claimed and has yet to close
  unclosed,       \* those whose close() raised
  awaits,         \* the tokens whose disposal, or the shutdown, it waits for
  error           \* whether one of them failed

registry  == <<provider, registrations>>
instances == <<cached, created>>
gates     == <<owner, retired, waitsFor>>
tracker   == <<tracked, disposing, disposed>>
lifetime  == <<shutter, closed, cleanupFailed>>
claims    == <<toRetire, toClose, unclosed>>
joins     == <<awaits, error>>
vars == <<registry, instances, gates, tracker, disposals, pending, lifetime, pc,
          stack, target, replaces, claims, joins>>

ResolveLabels == {"read", "claim", "wait", "waiting", "create", "release", "giveup"}
CleanupLabels ==
  {"begin", "retire", "drain", "close", "join", "commit",
   "disposals", "wait_disposals", "retire_all"}

TypeOK ==
  /\ provider \in [Tokens -> Numbers \cup {0}]
  /\ registrations \in [Tokens -> Numbers \cup {0}]
  /\ cached \in [Tokens -> Instances \cup {NoInstance}]
  /\ created \in [Providers -> Nat]
  /\ owner \in [Providers -> Threads \cup {NoThread}]
  /\ retired \subseteq Providers
  /\ waitsFor \in [Threads -> Threads \cup {NoThread}]
  /\ tracked \subseteq Instances /\ disposing \subseteq Instances
  /\ disposed \subseteq Instances
  /\ disposals \subseteq Tokens
  /\ pending \in [Tokens -> SUBSET Instances]
  /\ shutter \in Threads \cup {NoThread}
  /\ closed \in BOOLEAN /\ cleanupFailed \in BOOLEAN
  /\ pc \in [Threads -> {"idle"} \cup ResolveLabels \cup CleanupLabels]
  /\ stack \in [Threads -> Seq([provider : Providers, at : Nat])]
  /\ target \in [Threads -> Tokens \cup {NoToken}]
  /\ replaces \subseteq Threads
  /\ toRetire \in [Threads -> SUBSET Tokens]
  /\ toClose \in [Threads -> SUBSET Instances]
  /\ unclosed \in [Threads -> SUBSET Instances]
  /\ awaits \in [Threads -> SUBSET (Tokens \cup {ShutdownDone})]
  /\ error \in [Threads -> BOOLEAN]

\* Every token is registered for the first time.
Init ==
  /\ provider = [k \in Tokens |-> 1]
  /\ registrations = [k \in Tokens |-> 1]
  /\ cached = [k \in Tokens |-> NoInstance]
  /\ created = [p \in Providers |-> 0]
  /\ owner = [p \in Providers |-> NoThread]
  /\ retired = {}
  /\ waitsFor = [t \in Threads |-> NoThread]
  /\ tracked = {} /\ disposing = {} /\ disposed = {}
  /\ disposals = {}
  /\ pending = [k \in Tokens |-> {}]
  /\ shutter = NoThread
  /\ closed = FALSE /\ cleanupFailed = FALSE
  /\ pc = [t \in Threads |-> "idle"]
  /\ stack = [t \in Threads |-> <<>>]
  /\ target = [t \in Threads |-> NoToken]
  /\ replaces = {}
  /\ toRetire = [t \in Threads |-> {}]
  /\ toClose = [t \in Threads |-> {}]
  /\ unclosed = [t \in Threads |-> {}]
  /\ awaits = [t \in Threads |-> {}]
  /\ error = [t \in Threads |-> FALSE]

Goto(t, label) == pc' = [pc EXCEPT ![t] = label]

\* _ensure_open.
Open == ~closed /\ ~cleanupFailed /\ shutter = NoThread

------------------------------------------------------------------------------
\* Resolution.

Top(t) == stack[t][Len(stack[t])]
Resolved(t) == Top(t).provider

\* _find_resolvable_provider.
CanResolve(k) ==
  /\ Open
  /\ k \notin disposals /\ pending[k] = {}
  /\ provider[k] # 0

Frame(k) == [provider |-> <<k, provider[k]>>, at |-> 0]

NextOf(frame) == [provider |-> frame.provider, at |-> frame.at + 1]

\* The call returns to the factory that needs the instance, or to the
\* application; an error makes that factory's gate be released.
Return(t, ok) ==
  LET outer == SubSeq(stack[t], 1, Len(stack[t]) - 1)
      n == Len(outer)
  IN /\ stack' = [stack EXCEPT ![t] =
                    IF n > 0 /\ ok THEN [outer EXCEPT ![n] = NextOf(@)] ELSE outer]
     /\ Goto(t, IF n = 0 THEN "idle" ELSE IF ok THEN "create" ELSE "giveup")

NotCleaning == UNCHANGED <<tracker, disposals, pending, lifetime, target,
                           replaces, claims, joins>>

Resolve(t, k) ==
  /\ "resolve" \in Commands[t]
  /\ pc[t] = "idle"
  /\ CanResolve(k)
  /\ stack' = [stack EXCEPT ![t] = <<Frame(k)>>]
  /\ Goto(t, "read")
  /\ UNCHANGED <<registry, instances, gates>> /\ NotCleaning

\* The instance of a provider that was unregistered is gone.
Read(t) ==
  /\ pc[t] = "read"
  /\ LET k == Resolved(t)[1]
     IN IF Resolved(t)[2] = provider[k] /\ cached[k] # NoInstance
        THEN Return(t, TRUE)
        ELSE Goto(t, "claim") /\ UNCHANGED stack
  /\ UNCHANGED <<registry, instances, gates>> /\ NotCleaning

\* Fault: a gate that is being used can be claimed.
ClaimAnyway(t) ==
  /\ pc[t] = "claim"
  /\ IF Resolved(t) \in retired
     THEN Return(t, FALSE) /\ UNCHANGED owner
     ELSE /\ owner' = [owner EXCEPT ![Resolved(t)] = t]
          /\ Goto(t, "create")
          /\ UNCHANGED stack
  /\ UNCHANGED <<registry, instances, retired, waitsFor>> /\ NotCleaning

\* InitializationGate.claim.
Claim(t) ==
  /\ pc[t] = "claim"
  /\ \/ /\ Resolved(t) \in retired
        /\ Return(t, FALSE)
        /\ UNCHANGED owner
     \/ /\ Resolved(t) \notin retired
        /\ owner[Resolved(t)] = NoThread
        /\ owner' = [owner EXCEPT ![Resolved(t)] = t]
        /\ Goto(t, "create")
        /\ UNCHANGED stack
     \/ /\ Resolved(t) \notin retired
        /\ owner[Resolved(t)] # NoThread
        /\ Goto(t, "wait")
        /\ UNCHANGED <<owner, stack>>
  /\ UNCHANGED <<registry, instances, retired, waitsFor>> /\ NotCleaning

\* From the thread "from", the edges lead to "to".
Reaches(edges, from, to) ==
  LET at[n \in 0..Cardinality(Threads)] ==
        IF n = 0 THEN from
        ELSE IF at[n - 1] = NoThread THEN NoThread ELSE edges[at[n - 1]]
  IN \E n \in DOMAIN at : at[n] = to

CycleFound(t) == Reaches(waitsFor, owner[Resolved(t)], t)

\* InitializationGate.wait up to the wait for the condition.
BeginWait(t) ==
  /\ pc[t] = "wait"
  /\ \/ /\ owner[Resolved(t)] = NoThread
        /\ IF Resolved(t) \in retired
           THEN Return(t, FALSE)
           ELSE Goto(t, "read") /\ UNCHANGED stack
        /\ UNCHANGED waitsFor
     \/ /\ owner[Resolved(t)] # NoThread
        /\ IF CycleFound(t)
           THEN Return(t, FALSE) /\ UNCHANGED waitsFor
           ELSE /\ waitsFor' = [waitsFor EXCEPT ![t] = owner[Resolved(t)]]
                /\ Goto(t, "waiting")
                /\ UNCHANGED stack
  /\ UNCHANGED <<registry, instances, owner, retired>> /\ NotCleaning

\* The thread wakes when nobody uses the gate; its edge goes only now.
EndWait(t) ==
  /\ pc[t] = "waiting"
  /\ owner[Resolved(t)] = NoThread
  /\ waitsFor' = [waitsFor EXCEPT ![t] = NoThread]
  /\ IF Resolved(t) \in retired
     THEN Return(t, FALSE)
     ELSE Goto(t, "read") /\ UNCHANGED stack
  /\ UNCHANGED <<registry, instances, owner, retired>> /\ NotCleaning

\* resolve_missing_kwargs resolves the next parameter.
ResolveNext(t) ==
  /\ pc[t] = "create"
  /\ Top(t).at < Len(Depends[Resolved(t)[1]])
  /\ LET k == Depends[Resolved(t)[1]][Top(t).at + 1]
     IN IF CanResolve(k) /\ \A i \in DOMAIN stack[t] : stack[t][i].provider[1] # k
        THEN /\ stack' = [stack EXCEPT ![t] = Append(@, Frame(k))]
             /\ Goto(t, "read")
        ELSE Goto(t, "giveup") /\ UNCHANGED stack
  /\ UNCHANGED <<registry, instances, gates>> /\ NotCleaning

Prepared(t) ==
  pc[t] = "create" /\ Top(t).at = Len(Depends[Resolved(t)[1]])

\* The factory returns, and the instance is stored and remembered.
Create(t) ==
  /\ Prepared(t)
  /\ LET p == Resolved(t)
         i == <<p, created[p] + 1>>
     IN /\ created' = [created EXCEPT ![p] = @ + 1]
        /\ cached' = [cached EXCEPT ![p[1]] = IF provider[p[1]] = p[2] THEN i ELSE @]
        /\ tracked' = tracked \cup {i}
  /\ Goto(t, "release")
  /\ UNCHANGED <<registry, gates, disposing, disposed, disposals, pending,
                 lifetime, stack, target, replaces, claims, joins>>

FactoryRaises(t) ==
  /\ Prepared(t)
  /\ FactoryMayFail
  /\ Goto(t, "giveup")
  /\ UNCHANGED <<registry, instances, gates, stack>> /\ NotCleaning

\* Fault: an error does not release the gate.
ReleaseAfterSuccess(t) ==
  /\ pc[t] \in {"release", "giveup"}
  /\ owner' = IF pc[t] = "release"
              THEN [owner EXCEPT ![Resolved(t)] = NoThread] ELSE owner
  /\ Return(t, pc[t] = "release")
  /\ UNCHANGED <<registry, instances, retired, waitsFor>> /\ NotCleaning

Release(t) ==
  /\ pc[t] \in {"release", "giveup"}
  /\ owner' = [owner EXCEPT ![Resolved(t)] = NoThread]
  /\ Return(t, pc[t] = "release")
  /\ UNCHANGED <<registry, instances, retired, waitsFor>> /\ NotCleaning

------------------------------------------------------------------------------
\* Unregistering and registering a token.

NotResolving == UNCHANGED <<created, waitsFor, stack>>

Idle(t) == /\ Goto(t, "idle")
           /\ target' = [target EXCEPT ![t] = NoToken]
           /\ replaces' = replaces \ {t}

Unregister(t, k) ==
  /\ "unregister" \in Commands[t]
  /\ pc[t] = "idle"
  /\ Goto(t, "begin")
  /\ target' = [target EXCEPT ![t] = k]
  /\ UNCHANGED <<registry, cached, owner, retired, tracker, disposals, pending,
                 lifetime, replaces, claims, joins>> /\ NotResolving

\* register() first unregisters what the token stands for.
Register(t, k) ==
  /\ "register" \in Commands[t]
  /\ pc[t] = "idle"
  /\ k \in Replaceable /\ registrations[k] < MaxRegistrations
  /\ Open /\ k \notin disposals /\ pending[k] = {}
  /\ Goto(t, IF provider[k] # 0 THEN "begin" ELSE "commit")
  /\ target' = [target EXCEPT ![t] = k]
  /\ replaces' = replaces \cup {t}
  /\ UNCHANGED <<registry, cached, owner, retired, tracker, disposals, pending,
                 lifetime, claims, joins>> /\ NotResolving

\* _claim_token_disposal: all callers share one attempt.
ClaimDisposal(t) ==
  /\ pc[t] = "begin"
  /\ \/ /\ ~Open
        /\ Idle(t)
        /\ UNCHANGED <<disposals, awaits>>
     \/ /\ Open
        /\ UNCHANGED <<target, replaces>>
        /\ \/ /\ target[t] \notin disposals
              /\ disposals' = disposals \cup {target[t]}
              /\ Goto(t, "retire")
              /\ UNCHANGED awaits
           \/ /\ target[t] \in disposals
              /\ awaits' = [awaits EXCEPT ![t] = {target[t]}]
              /\ Goto(t, "join")
              /\ UNCHANGED disposals
  /\ UNCHANGED <<registry, cached, owner, retired, tracker, pending, lifetime,
                 claims, error>> /\ NotResolving

\* InitializationGate.retire, up to its wait.
Retire(t) ==
  /\ pc[t] = "retire"
  /\ LET k == target[t]
     IN retired' = IF provider[k] # 0 THEN retired \cup {<<k, provider[k]>>} ELSE retired
  /\ Goto(t, "drain")
  /\ UNCHANGED <<registry, cached, owner, tracker, disposals, pending, lifetime,
                 target, replaces, claims, joins>> /\ NotResolving

GateIdle(k) == provider[k] # 0 => owner[<<k, provider[k]>>] = NoThread

\* ResourceTracker.claim.
ClaimToClose(t, candidates) ==
  LET claimed == (candidates \cap tracked) \ disposing
  IN /\ disposing' = disposing \cup claimed
     /\ toClose' = [toClose EXCEPT ![t] = claimed]

\* The gate's wait and _detach_token_instances; a token with a pending disposal
\* has been detached before.
Detach(t) ==
  /\ pc[t] = "drain"
  /\ GateIdle(target[t])
  /\ LET k == target[t]
     IN /\ ClaimToClose(t, IF pending[k] # {} THEN pending[k] ELSE {cached[k]})
        /\ provider' = [provider EXCEPT ![k] = 0]
        /\ cached' = [cached EXCEPT ![k] = NoInstance]
  /\ Goto(t, "close")
  /\ UNCHANGED <<registrations, owner, retired, tracked, disposed, disposals,
                 pending, lifetime, target, replaces, toRetire, unclosed, joins>>
  /\ NotResolving

\* Fault: a closed instance is released to the tracker, not forgotten.
CloseReturnsUnforgotten(t, i) ==
  /\ pc[t] = "close" /\ i \in toClose[t]
  /\ toClose' = [toClose EXCEPT ![t] = @ \ {i}]
  /\ disposed' = disposed \cup {i}
  /\ disposing' = disposing \ {i}
  /\ UNCHANGED tracked
  /\ UNCHANGED <<registry, cached, owner, retired, disposals, pending, lifetime, pc,
                 target, replaces, toRetire, unclosed, joins>> /\ NotResolving

\* dispose_many closes the instances, in the reverse order of their creation,
\* which is left open here.
CloseReturns(t, i) ==
  /\ pc[t] = "close" /\ i \in toClose[t]
  /\ toClose' = [toClose EXCEPT ![t] = @ \ {i}]
  /\ disposed' = disposed \cup {i}
  /\ disposing' = disposing \ {i}
  /\ tracked' = tracked \ {i}
  /\ UNCHANGED <<registry, cached, owner, retired, disposals, pending, lifetime, pc,
                 target, replaces, toRetire, unclosed, joins>> /\ NotResolving

CloseRaises(t, i) ==
  /\ CloseMayFail
  /\ pc[t] = "close" /\ i \in toClose[t]
  /\ toClose' = [toClose EXCEPT ![t] = @ \ {i}]
  /\ unclosed' = [unclosed EXCEPT ![t] = @ \cup {i}]
  /\ disposing' = disposing \ {i}
  /\ UNCHANGED <<registry, cached, owner, retired, tracked, disposed, disposals,
                 pending, lifetime, pc, target, replaces, toRetire, joins>>
  /\ NotResolving

\* An attempt is done: who waits for it sees its error.
Announce(what, failed) ==
  /\ awaits' = [t \in Threads |-> awaits[t] \ {what}]
  /\ error' = [t \in Threads |-> error[t] \/ (what \in awaits[t] /\ failed)]

\* _finish_token_disposal; what could not be closed stays pending.
EndUnregister(t) ==
  /\ pc[t] = "close" /\ toClose[t] = {}
  /\ shutter # t
  /\ LET k == target[t]
     IN /\ pending' = [pending EXCEPT ![k] = unclosed[t] \cap tracked]
        /\ disposals' = disposals \ {k}
        /\ Announce(k, unclosed[t] # {})
  /\ unclosed' = [unclosed EXCEPT ![t] = {}]
  /\ IF t \in replaces /\ unclosed[t] = {}
     THEN Goto(t, "commit") /\ UNCHANGED <<target, replaces>>
     ELSE Idle(t)
  /\ UNCHANGED <<registry, cached, owner, retired, tracker, lifetime, toRetire,
                 toClose>> /\ NotResolving

\* A caller that shared an attempt.
Join(t) ==
  /\ pc[t] = "join" /\ awaits[t] = {}
  /\ error' = [error EXCEPT ![t] = FALSE]
  /\ IF t \in replaces /\ ~error[t]
     THEN Goto(t, "commit") /\ UNCHANGED <<target, replaces>>
     ELSE Idle(t)
  /\ UNCHANGED <<registry, cached, owner, retired, tracker, disposals, pending,
                 lifetime, claims, awaits>> /\ NotResolving

\* The last section of register(), which checks everything again.
Commit(t) ==
  /\ pc[t] = "commit"
  /\ LET k == target[t]
     IN IF /\ Open /\ k \notin disposals /\ pending[k] = {}
           /\ provider[k] = 0 /\ registrations[k] < MaxRegistrations
        THEN /\ provider' = [provider EXCEPT ![k] = registrations[k] + 1]
             /\ registrations' = [registrations EXCEPT ![k] = @ + 1]
        ELSE UNCHANGED registry
  /\ Idle(t)
  /\ UNCHANGED <<cached, owner, retired, tracker, disposals, pending, lifetime,
                 claims, joins>> /\ NotResolving

------------------------------------------------------------------------------
\* Shutdown.

\* _claim_shutdown: all callers share one attempt, and a failed one can be
\* repeated.
Shutdown(t) ==
  /\ "shutdown" \in Commands[t]
  /\ pc[t] = "idle"
  /\ ~closed
  /\ IF shutter = NoThread
     THEN shutter' = t /\ Goto(t, "disposals") /\ UNCHANGED awaits
     ELSE /\ awaits' = [awaits EXCEPT ![t] = {ShutdownDone}]
          /\ Goto(t, "join")
          /\ UNCHANGED shutter
  /\ UNCHANGED <<registry, cached, owner, retired, tracker, disposals, pending,
                 closed, cleanupFailed, target, replaces, claims, error>>
  /\ NotResolving

SeeDisposals(t) ==
  /\ pc[t] = "disposals"
  /\ awaits' = [awaits EXCEPT ![t] = disposals]
  /\ Goto(t, "wait_disposals")
  /\ UNCHANGED <<registry, cached, owner, retired, tracker, disposals, pending,
                 lifetime, target, replaces, claims, error>> /\ NotResolving

\* Without an error the cleanup starts.
DisposalsDone(t) ==
  /\ pc[t] = "wait_disposals"
  /\ awaits[t] = {} /\ ~error[t]
  /\ toRetire' = [toRetire EXCEPT ![t] = {k \in Tokens : provider[k] # 0}]
  /\ Goto(t, "retire_all")
  /\ UNCHANGED <<registry, cached, owner, retired, tracker, disposals, pending,
                 lifetime, target, replaces, toClose, unclosed, joins>>
  /\ NotResolving

\* The error of a disposal ends the attempt before it has changed anything.
\* The order in which the disposals are awaited is left open.
DisposalFailed(t) ==
  /\ pc[t] = "wait_disposals"
  /\ error[t]
  /\ shutter' = NoThread
  /\ awaits' = [u \in Threads |-> IF u = t THEN {} ELSE awaits[u] \ {ShutdownDone}]
  /\ error' = [u \in Threads |-> u # t /\ (error[u] \/ ShutdownDone \in awaits[u])]
  /\ Goto(t, "idle")
  /\ UNCHANGED <<registry, cached, owner, retired, tracker, disposals, pending,
                 closed, cleanupFailed, target, replaces, claims>> /\ NotResolving

\* _retire_all waits for one gate before it retires the next.
RetiredIdle(t) == \A k \in Tokens \ toRetire[t] : GateIdle(k)

RetireNext(t, k) ==
  /\ pc[t] = "retire_all"
  /\ k \in toRetire[t]
  /\ RetiredIdle(t)
  /\ retired' = retired \cup {<<k, provider[k]>>}
  /\ toRetire' = [toRetire EXCEPT ![t] = @ \ {k}]
  /\ UNCHANGED <<registry, cached, owner, tracker, disposals, pending, lifetime, pc,
                 target, replaces, toClose, unclosed, joins>> /\ NotResolving

\* Fault: only what the providers hold is closed.
DetachCached(t) ==
  /\ pc[t] = "retire_all"
  /\ toRetire[t] = {} /\ RetiredIdle(t)
  /\ ClaimToClose(t, {cached[k] : k \in Tokens})
  /\ cached' = [k \in Tokens |-> NoInstance]
  /\ Goto(t, "close")
  /\ UNCHANGED <<registry, owner, retired, tracked, disposed, disposals, pending,
                 lifetime, target, replaces, toRetire, unclosed, joins>>
  /\ NotResolving

\* Fault: the providers keep their instances.
DetachKeepsCache(t) ==
  /\ pc[t] = "retire_all"
  /\ toRetire[t] = {} /\ RetiredIdle(t)
  /\ ClaimToClose(t, tracked)
  /\ Goto(t, "close")
  /\ UNCHANGED <<registry, cached, owner, retired, tracked, disposed, disposals,
                 pending, lifetime, target, replaces, toRetire, unclosed, joins>>
  /\ NotResolving

\* _detach_shutdown_instances takes everything that is still owned.
DetachAll(t) ==
  /\ pc[t] = "retire_all"
  /\ toRetire[t] = {} /\ RetiredIdle(t)
  /\ ClaimToClose(t, tracked)
  /\ cached' = [k \in Tokens |-> NoInstance]
  /\ Goto(t, "close")
  /\ UNCHANGED <<registry, owner, retired, tracked, disposed, disposals, pending,
                 lifetime, target, replaces, toRetire, unclosed, joins>>
  /\ NotResolving

\* _finish_shutdown.
EndShutdown(t) ==
  /\ pc[t] = "close" /\ toClose[t] = {}
  /\ shutter = t
  /\ shutter' = NoThread
  /\ closed' = (unclosed[t] = {})
  /\ cleanupFailed' = (unclosed[t] # {})
  /\ Announce(ShutdownDone, unclosed[t] # {})
  /\ unclosed' = [unclosed EXCEPT ![t] = {}]
  /\ Goto(t, "idle")
  /\ UNCHANGED <<registry, cached, owner, retired, tracker, disposals, pending,
                 target, replaces, toRetire, toClose>> /\ NotResolving

------------------------------------------------------------------------------
ResolveStep(t) ==
  \/ Read(t) \/ Claim(t) \/ BeginWait(t) \/ EndWait(t)
  \/ ResolveNext(t) \/ Create(t) \/ FactoryRaises(t) \/ Release(t)

CleanupStep(t) ==
  \/ ClaimDisposal(t) \/ Retire(t) \/ Detach(t) \/ EndUnregister(t)
  \/ Join(t) \/ Commit(t)
  \/ SeeDisposals(t) \/ DisposalsDone(t) \/ DisposalFailed(t)
  \/ \E k \in Tokens : RetireNext(t, k)
  \/ DetachAll(t) \/ EndShutdown(t)
  \/ \E i \in toClose[t] : CloseReturns(t, i) \/ CloseRaises(t, i)

Next ==
  \E t \in Threads :
    \/ \E k \in Tokens : Resolve(t, k) \/ Unregister(t, k) \/ Register(t, k)
    \/ Shutdown(t)
    \/ ResolveStep(t) \/ CleanupStep(t)

Spec == Init /\ [][Next]_vars

\* A thread inside a call goes on: factories and close() return or raise.
FairSpec == Spec /\ \A t \in Threads : WF_vars(ResolveStep(t) \/ CleanupStep(t))

------------------------------------------------------------------------------
\* Safety.

\* A thread that creates an instance, or resolves what it needs for that, owns
\* the gate of its provider: no two threads create for the same provider, and a
\* retired gate is idle (registration.py: "Coordinate one cached value across
\* sync threads and async tasks").
InCreation(t, i) ==
  i < Len(stack[t]) \/ (i = Len(stack[t]) /\ pc[t] \in {"create", "release", "giveup"})
CreatorOwnsGate ==
  \A t \in Threads : \A i \in DOMAIN stack[t] :
    owner[stack[t][i].provider] = t <=> InCreation(t, i)

\* What a resolution may return is owned by the container and nobody closes it.
CachedIsAlive ==
  \A k \in Tokens : cached[k] # NoInstance =>
    /\ cached[k] \in tracked
    /\ cached[k] \notin disposing \cup disposed

\* "Concurrent cleanup claims each instance once, preventing double-close"
\* (docs/en/dependency.md): nothing is closed again or by two threads.
ClosesOnce ==
  \A t \in Threads :
    /\ toClose[t] \cap disposed = {}
    /\ \A u \in Threads \ {t} : toClose[t] \cap toClose[u] = {}

\* A container that counts as closed has closed every instance it created, also
\* those that an earlier unregister() or shutdown() could not close.
ClosedMeansDisposed ==
  closed => \A p \in Providers : \A n \in 1..created[p] : <<p, n>> \in disposed

\* resolve(), register(), unregister() and shutdown() return, whatever the
\* others wait for: gates, disposals and shutdown do not wait in a circle.  Only
\* creations that fail again and again can keep a thread from its turn at a gate.
CallsReturn ==
  <>[](\A t \in Threads : pc[t] # "giveup") =>
    \A t \in Threads : pc[t] # "idle" ~> pc[t] = "idle"

------------------------------------------------------------------------------
\* What the documentation promises and the code does not keep.

\* "singleton: one per owning container" (docs/en/dependency.md).
CreatedOnce == \A p \in Providers : created[p] <= 1

\* "CircularDependencyError - dependency cycle, including cross-thread/task"
\* (docs/en/dependency.md): a cycle is reported only if the threads do wait for
\* each other's gates in a circle.
BlockedBy ==
  [t \in Threads |-> IF pc[t] = "waiting" THEN owner[Resolved(t)] ELSE NoThread]
CyclesAreReal ==
  [][\A t \in Threads :
       /\ pc[t] = "wait" /\ owner[Resolved(t)] # NoThread
       /\ BeginWait(t)
       /\ pc'[t] # "waiting"
       => Reaches(BlockedBy, owner[Resolved(t)], t)]_vars
==============================================================================
