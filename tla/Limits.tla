------------------------------- MODULE Limits -------------------------------
(***************************************************************************)
(* The sliding windows kept in the memory of an API process: the request   *)
(* limit of the scan API, the upload limit of an API client, which an      *)
(* administrator can change, and the lockout of the panel's login.         *)
(*                                                                         *)
(* Keys do not influence each other, so the model follows one key of one   *)
(* of the three.  No handler awaits between its look at the window and its *)
(* entry in it, so a call is one step of its process; but every API        *)
(* process (uvicorn --workers 2) keeps a window of its own, and loses it   *)
(* when it restarts.                                                       *)
(***************************************************************************)
EXTENDS Naturals, FiniteSets

CONSTANTS
  Processes,   \* API processes
  Span,        \* 60 s, or _LOCKOUT_SECONDS
  Budgets,     \* limits the settings may give
  MaxTime,     \* bound: the clock stops there
  MaxFresh     \* bound: restarts and successful logins of a process

ASSUME SpanAssumption == Span \in Nat \ {0} /\ MaxTime \in Nat /\ MaxFresh \in Nat
ASSUME BudgetsAssumption == Budgets \subseteq Nat /\ Budgets # {}
ASSUME ProcessesAssumption == IsFiniteSet(Processes)

VARIABLES
  counter,   \* which of the three windows this is
  limit,     \* the limit in force
  now,       \* time.monotonic()
  hits,      \* the window of each process: the calls it remembers
  fresh,     \* history: how often each process began with an empty window again
  passed,    \* history: the calls that were let through
  highest    \* history: the highest limit there was

vars == <<counter, limit, now, hits, fresh, passed, highest>>

Counters == {"requests", "uploads", "login"}

(* A window is the memory of a process from one emptying to the next; the  *)
(* calls that one window let through at the same time are numbered.        *)
Windows == {<<p, n>> : p \in Processes, n \in 0..MaxFresh}
Opened == {w \in Windows : w[2] <= fresh[w[1]]}
Calls == [at : 0..MaxTime, window : Windows, number : Nat \ {0}]

Init ==
  /\ counter \in Counters
  /\ limit \in Budgets
  /\ now = 0
  /\ hits = [p \in Processes |-> {}]
  /\ fresh = [p \in Processes |-> 0]
  /\ passed = {}
  /\ highest = limit

Current(p) == <<p, fresh[p]>>

Alike(t, w) == {c \in passed : c.at = t /\ c.window = w}

(* A call that p lets through, entered with the time t *)
Call(p, t) ==
  [at |-> t, window |-> Current(p), number |-> Cardinality(Alike(now, Current(p))) + 1]

(* Mutation: a hit that is exactly Span old no longer counts as a request *)
CountsOpen(t) == now - t < Span

(* "while q and q[0] < window_start", "now - t < _LOCKOUT_SECONDS" *)
Counts(t) == IF counter = "login" THEN now - t < Span ELSE now - t <= Span

Window(p) == {c \in hits[p] : Counts(c.at)}

(* Mutation: the window holds the times at which its entries expire *)
LetThroughUntil(p) ==
  /\ Cardinality(Window(p)) < limit
  /\ hits' = [hits EXCEPT ![p] = Window(p) \cup {Call(p, now + Span)}]
  /\ passed' = passed \cup {Call(p, now)}
  /\ UNCHANGED <<counter, limit, now, fresh, highest>>

(* A call is let through and entered in the window *)
LetThrough(p) ==
  /\ Cardinality(Window(p)) < limit
  /\ hits' = [hits EXCEPT ![p] = Window(p) \cup {Call(p, now)}]
  /\ passed' = passed \cup {Call(p, now)}
  /\ UNCHANGED <<counter, limit, now, fresh, highest>>

(* RateLimiter.allow, _upload_rate_limit_ok, and a wrong password that was *)
(* looked at                                                               *)
AllowRequest(p) == counter = "requests" /\ LetThrough(p)
AllowUpload(p) == counter = "uploads" /\ LetThrough(p)
LoginFails(p) == counter = "login" /\ LetThrough(p)

(* Mutation: a refused call is entered in the window too *)
RefuseCounting(p) ==
  /\ Cardinality(Window(p)) = limit
  /\ hits' = [hits EXCEPT ![p] = Window(p) \cup {Call(p, now)}]
  /\ UNCHANGED <<counter, limit, now, fresh, passed, highest>>

(* 429: the window has only forgotten what is too old *)
Refuse(p) ==
  /\ Cardinality(Window(p)) >= limit
  /\ hits' = [hits EXCEPT ![p] = Window(p)]
  /\ UNCHANGED <<counter, limit, now, fresh, passed, highest>>

(* The window is empty again *)
Empty(p) ==
  /\ fresh[p] < MaxFresh
  /\ hits' = [hits EXCEPT ![p] = {}]
  /\ fresh' = [fresh EXCEPT ![p] = @ + 1]
  /\ UNCHANGED <<counter, limit, now, passed, highest>>

(* The right password, if it is looked at: _clear_failed_attempts *)
LogIn(p) == counter = "login" /\ Cardinality(Window(p)) < limit /\ Empty(p)

Restart(p) == Empty(p)

(* security_submit: the next upload reads the new limit *)
ChangeLimit(n) ==
  /\ counter = "uploads"
  /\ n # limit
  /\ limit' = n
  /\ highest' = IF n > highest THEN n ELSE highest
  /\ UNCHANGED <<counter, now, hits, fresh, passed>>

Tick ==
  /\ now < MaxTime
  /\ now' = now + 1
  /\ UNCHANGED <<counter, limit, hits, fresh, passed, highest>>

Next ==
  \/ Tick
  \/ \E n \in Budgets : ChangeLimit(n)
  \/ \E p \in Processes :
       \/ AllowRequest(p) \/ AllowUpload(p) \/ LoginFails(p) \/ Refuse(p)
       \/ LogIn(p) \/ Restart(p)

Spec == Init /\ [][Next]_vars

-----------------------------------------------------------------------------
TypeOK ==
  /\ counter \in Counters
  /\ limit \in Budgets /\ highest \in Budgets
  /\ now \in 0..MaxTime
  /\ hits \in [Processes -> SUBSET Calls]
  /\ fresh \in [Processes -> 0..MaxFresh]
  /\ passed \subseteq Calls /\ IsFiniteSet(passed)

(* The calls that were let through in the times ts *)
Through(ts) == {c \in passed : c.at \in ts}

(* The stretch of time a limit speaks of: 60 seconds with both its ends,   *)
(* the lockout without the end that is _LOCKOUT_SECONDS old                *)
Stretch(t) == {u \in 0..t : t - u < Span \/ (counter # "login" /\ t - u = Span)}

(* In no such stretch of time are more calls let through than the limit    *)
(* allows each process, and each restart and each login once more - also   *)
(* around a hit that is exactly as old as the window, and also when the    *)
(* limit is lowered or raised meanwhile.                                   *)
WindowBounded ==
  \A t \in 0..MaxTime :
    Cardinality(Through(Stretch(t))) <= highest * Cardinality(Opened)

(* A process never counts more calls than were let through: a caller that  *)
(* is refused and keeps trying is not kept out for that, and a lockout     *)
(* ends when its failures are old, however often it is run into.           *)
RefusalsAreEarned ==
  \A p \in Processes : Cardinality(Window(p)) <= Cardinality(Through(Stretch(now)))
=============================================================================
