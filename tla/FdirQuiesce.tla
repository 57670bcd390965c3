----------------------------- MODULE FdirQuiesce -----------------------------
(***************************************************************************)
(* The FDIR quiesce gate (app/services/fdir_quiesce.py): a refcounted,     *)
(* domain-scoped window during which the watchdogs do not escalate the     *)
(* staleness that a planned restart causes.                                *)
(*                                                                         *)
(* The monotonic deadline _until is represented by the time left until it, *)
(* 0 once it has passed: the code only ever asks whether _until > now.     *)
(* Every operation of the code runs under one lock and is one action here. *)
(***************************************************************************)
EXTENDS Integers, FdirThreads

CONSTANTS
    Domains,    \* the FDIR domains (PIPELINE, SENSOR, JANUS)
    Ttls,       \* the window lengths callers ask for
    Ceiling     \* QUIESCE_TTL_CEILING_SEC

ASSUME CeilingNat == Ceiling \in Nat
\* Every caller passes a positive ttl: a restart's timeout plus a margin.
ASSUME TtlsPositive == Ttls \subseteq (Nat \ {0})

VARIABLES
    left,       \* time left of the window: max(0, _until - now)
    quiet,      \* _domains
    arms,       \* _arms
    inside,     \* the threads between quiesce() and unquiesce()
    windowAge   \* history: time since the first arm of the window

quiesceVars == <<left, quiet, arms, inside, windowAge>>

QuiesceInit ==
    /\ left = 0
    /\ quiet = {}
    /\ arms = 0
    /\ inside = {}
    /\ windowAge = 0

-----------------------------------------------------------------------------
\* is_quiesced(domain)
IsQuiesced(d) == left > 0 /\ d \in quiet

Clamp(ttl) == IF ttl < Ceiling THEN ttl ELSE Ceiling

\* Mutant: every arm pushes the deadline.
QuiesceExtending(t, ttl, ds) ==
    /\ t \notin inside
    /\ inside' = inside \cup {t}
    /\ arms' = arms + 1
    /\ left' = Clamp(ttl)
    /\ quiet' = quiet \cup ds
    /\ windowAge' = IF arms = 0 THEN 0 ELSE windowAge

\* quiesce(ttl, reason, domains): the first arm sets the deadline and the
\* domains, a nested arm only widens the domains.
Quiesce(t, ttl, ds) ==
    /\ t \notin inside
    /\ inside' = inside \cup {t}
    /\ arms' = arms + 1
    /\ \/ /\ arms = 0
          /\ left' = Clamp(ttl)
          /\ quiet' = ds
          /\ windowAge' = 0
       \/ /\ arms # 0
          /\ quiet' = quiet \cup ds
          /\ UNCHANGED <<left, windowAge>>

\* Mutant: the first one out clears.
UnquiesceFirstOut(t) ==
    /\ t \in inside
    /\ inside' = inside \ {t}
    /\ arms' = 0 /\ left' = 0 /\ quiet' = {} /\ windowAge' = 0

\* unquiesce(), from the finally of quiesced(...): the last one out clears.
Unquiesce(t) ==
    /\ t \in inside
    /\ inside' = inside \ {t}
    /\ arms' = IF arms > 0 THEN arms - 1 ELSE 0
    /\ \/ /\ arms' = 0
          /\ left' = 0
          /\ quiet' = {}
          /\ windowAge' = 0
       \/ /\ arms' # 0
          /\ UNCHANGED <<left, quiet, windowAge>>

\* One unit of monotonic time.  The age stops where no window can be alive.
QuiesceTick ==
    /\ left' = IF left > 0 THEN left - 1 ELSE 0
    /\ windowAge' = IF arms > 0 /\ windowAge < Ceiling + 1
                    THEN windowAge + 1 ELSE windowAge
    /\ UNCHANGED <<quiet, arms, inside>>

\* The module state dies with the process.
QuiesceLost ==
    /\ left' = 0
    /\ quiet' = {}
    /\ arms' = 0
    /\ inside' = {}
    /\ windowAge' = 0

QuiesceNext ==
    \/ \E t \in Threads, ttl \in Ttls, ds \in SUBSET Domains : Quiesce(t, ttl, ds)
    \/ \E t \in Threads : Unquiesce(t)
    \/ QuiesceTick
    \/ QuiesceLost

QuiesceSpec == QuiesceInit /\ [][QuiesceNext]_quiesceVars

-----------------------------------------------------------------------------
\* Type invariant of the gate's state.
QuiesceTypeOK ==
    /\ left \in 0..Ceiling
    /\ quiet \subseteq Domains
    /\ arms \in Nat
    /\ inside \subseteq Threads
    /\ windowAge \in 0..(Ceiling + 1)

\* TB-C5 and TB-C6 (fdir_quiesce.py): however many restarts overlap and
\* whatever ttl each asks for, a domain is suppressed only during the first
\* Ceiling time units after the FIRST arm of the window.
BlindnessBounded ==
    \A d \in Domains : IsQuiesced(d) => windowAge + left =< Ceiling

\* The refcount never drifts from the set of running restarts, in whatever
\* order they leave: the gate is fully open again once nobody is inside, and
\* no restart that ends first opens the gate for the ones still running.
GateFollowsHolders ==
    /\ arms = Cardinality(inside)
    /\ inside = {} => left = 0 /\ quiet = {}
=============================================================================
