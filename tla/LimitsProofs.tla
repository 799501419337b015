---------------------------- MODULE LimitsProofs ----------------------------
(***************************************************************************)
(* The limits hold for any number of API processes, any window, budgets    *)
(* and number of restarts: what any stretch of time lets through is at     *)
(* most the limit once per window that was opened, and a process never     *)
(* refuses for more calls than were let through.                           *)
(*                                                                         *)
(* LimitsInv says what makes a window a limit: a process remembers of its  *)
(* current window exactly calls that were let through, all those that      *)
(* still count among them (Remembered), and of no window more were let     *)
(* through in one stretch than the highest limit (BudgetKept).  The bound  *)
(* for all windows together is the pigeonhole principle.                   *)
(***************************************************************************)
EXTENDS Limits, FiniteSetTheorems, TLAPS

Remembered ==
  \A p \in Processes :
    /\ \A c \in hits[p] : c \in passed /\ c.window = Current(p)
    /\ \A c \in passed : c.window = Current(p) /\ Counts(c.at) => c \in hits[p]

CallsArePast == \A c \in passed : c.at <= now /\ c.window \in Opened

CallsAreNumbered == \A c \in passed : c.number <= Cardinality(Alike(c.at, c.window))

(* What one window let through in the stretch that ends at t *)
Share(w, t) == {c \in passed : c.window = w /\ c.at \in Stretch(t)}

BudgetKept ==
  /\ limit <= highest
  /\ \A w \in Windows, t \in 0..MaxTime : Cardinality(Share(w, t)) <= highest

LimitsInv == TypeOK /\ Remembered /\ CallsArePast /\ CallsAreNumbered /\ BudgetKept

-----------------------------------------------------------------------------
(* Counting                                                                *)

(* If no more than h elements of a finite set have the same key, the set   *)
(* has at most h elements for every key.                                   *)
LEMMA AtMostPerKey ==
  ASSUME NEW C, IsFiniteSet(C), NEW K, IsFiniteSet(K), NEW key \in [C -> K],
         NEW h \in Nat, \A k \in K : Cardinality({c \in C : key[c] = k}) <= h
  PROVE  Cardinality(C) <= h * Cardinality(K)
<1> DEFINE group(k) == {c \in C : key[c] = k}
           size(k) == Cardinality(group(k))
           list(k) == CHOOSE g : g \in Bijection(1..size(k), group(k))
           place == [c \in C |-> CHOOSE i \in 1..size(key[c]) : list(key[c])[i] = c]
           f == [c \in C |-> <<place[c], key[c]>>]
<1>1. ASSUME NEW k \in K
      PROVE  /\ size(k) \in 0..h
             /\ list(k) \in [1..size(k) -> group(k)]
             /\ \A c \in group(k) : \E i \in 1..size(k) : list(k)[i] = c
  <2>1. IsFiniteSet(group(k))
    BY FS_Subset
  <2>2. size(k) \in Nat /\ ExistsBijection(1..size(k), group(k))
    BY <2>1, FS_CardinalityType
  <2>3. size(k) <= h
    OBVIOUS
  <2> HIDE DEF size, group
  <2>4. list(k) \in Bijection(1..size(k), group(k))
    BY <2>2 DEF ExistsBijection
  <2> HIDE DEF list
  <2> QED
    BY <2>2, <2>3, <2>4 DEF Bijection, Surjection
<1>2. ASSUME NEW c \in C
      PROVE  place[c] \in 1..h /\ list(key[c])[place[c]] = c
  <2>1. key[c] \in K /\ c \in group(key[c])
    OBVIOUS
  <2>2. \E i \in 1..size(key[c]) : list(key[c])[i] = c
    BY <1>1, <2>1
  <2>3. size(key[c]) \in 0..h
    BY <1>1, <2>1
  <2> HIDE DEF size, list, group
  <2> QED
    BY <2>2, <2>3
<1>3. f \in Injection(C, (1..h) \X K)
  <2>1. f \in [C -> (1..h) \X K]
    BY <1>2
  <2>2. ASSUME NEW a \in C, NEW b \in C, f[a] = f[b] PROVE a = b
    <3> HIDE DEF place, list
    <3>1. /\ f[a][1] = place[a] /\ f[a][2] = key[a]
          /\ f[b][1] = place[b] /\ f[b][2] = key[b]
      OBVIOUS
    <3> HIDE DEF f
    <3>2. place[a] = place[b] /\ key[a] = key[b]
      BY <2>2, <3>1
    <3> QED
      BY <1>2, <3>2
  <2> HIDE DEF f
  <2>3. IsInjective(f)
    BY <2>1, <2>2 DEF IsInjective
  <2> QED
    BY <2>1, <2>3 DEF Injection
<1>4. IsFiniteSet(1..h) /\ Cardinality(1..h) = h
  BY FS_Interval
<1>5. /\ IsFiniteSet((1..h) \X K)
      /\ Cardinality((1..h) \X K) = h * Cardinality(K)
  BY <1>4, FS_Product
<1> HIDE DEF f
<1> QED
  BY <1>3, <1>5, FS_Injection

-----------------------------------------------------------------------------
(* Type correctness                                                        *)

(* There are finitely many windows, and each process is in one of them     *)
(* that was opened.                                                        *)
LEMMA WindowsAreFinite == IsFiniteSet(Windows) /\ IsFiniteSet(Opened)
<1>1. IsFiniteSet(0..MaxFresh)
  BY FS_Interval, SpanAssumption
<1>2. IsFiniteSet(Processes \X (0..MaxFresh))
  BY <1>1, FS_Product, ProcessesAssumption
<1>3. Windows = Processes \X (0..MaxFresh)
  BY DEF Windows
<1>4. IsFiniteSet(Windows)
  BY <1>2, <1>3
<1>5. Opened \in SUBSET Windows
  BY DEF Opened
<1> QED
  BY <1>4, <1>5, FS_Subset

(* The window a process is in is one that was opened.                      *)
LEMMA CurrentIsOpened ==
  ASSUME TypeOK, NEW p \in Processes
  PROVE  Current(p) \in Windows /\ Current(p) \in Opened
<1>1. fresh[p] \in 0..MaxFresh
  BY DEF TypeOK
<1>2. Current(p) \in Windows
  BY <1>1 DEF Windows, Current
<1>3. Current(p)[1] = p /\ Current(p)[2] = fresh[p]
  BY DEF Current
<1>4. Current(p)[2] <= fresh[Current(p)[1]]
  BY <1>1, <1>3, SpanAssumption
<1> QED
  BY <1>2, <1>4 DEF Opened

(* What is told apart of the calls that were let through is finite.        *)
LEMMA PartsAreFinite ==
  ASSUME TypeOK, NEW T \in SUBSET passed
  PROVE  IsFiniteSet(T) /\ Cardinality(T) \in Nat
<1>1. IsFiniteSet(T)
  BY FS_Subset DEF TypeOK
<1> QED
  BY <1>1, FS_CardinalityType

(* A call that is let through now is a call.                               *)
LEMMA CallIsTyped ==
  ASSUME TypeOK, NEW p \in Processes
  PROVE  Call(p, now) \in Calls
<1>1. Alike(now, Current(p)) \in SUBSET passed
  BY DEF Alike
<1>2. Cardinality(Alike(now, Current(p))) \in Nat
  BY <1>1, PartsAreFinite
<1>3. Cardinality(Alike(now, Current(p))) + 1 \in Nat \ {0}
  BY <1>2
<1>4. Current(p) \in Windows /\ now \in 0..MaxTime
  BY CurrentIsOpened DEF TypeOK
<1> QED
  BY <1>3, <1>4 DEF Calls, Call

(* What a step does: three kinds of call are let through alike, and a      *)
(* login empties a window as a restart does.                               *)
LEMMA StepKinds ==
  ASSUME [Next]_vars
  PROVE  \/ Tick
         \/ \E n \in Budgets : ChangeLimit(n)
         \/ \E p \in Processes : LetThrough(p)
         \/ \E p \in Processes : Refuse(p)
         \/ \E p \in Processes : Empty(p)
         \/ UNCHANGED vars
BY DEF Next, AllowRequest, AllowUpload, LoginFails, LogIn, Restart

(* The state starts typed, and every step keeps it so.                     *)
LEMMA TypeInit == Init => TypeOK
<1> SUFFICES ASSUME Init PROVE TypeOK
  OBVIOUS
<1>1. IsFiniteSet(passed)
  BY FS_EmptySet DEF Init
<1> QED
  BY <1>1, SpanAssumption DEF Init, TypeOK

LEMMA TypeStep ==
  ASSUME TypeOK, [Next]_vars
  PROVE  TypeOK'
<1> USE DEF TypeOK
<1>1. CASE Tick
  BY <1>1, SpanAssumption DEF Tick
<1>2. CASE \E n \in Budgets : ChangeLimit(n)
  BY <1>2 DEF ChangeLimit
<1>3. ASSUME NEW p \in Processes, LetThrough(p) PROVE TypeOK'
  <2>1. Call(p, now) \in Calls
    BY CallIsTyped
  <2>2. Window(p) \subseteq Calls
    BY DEF Window
  <2>3. IsFiniteSet(passed')
    BY <1>3, FS_AddElement DEF LetThrough
  <2>4. hits' \in [Processes -> SUBSET Calls]
    BY <1>3, <2>1, <2>2 DEF LetThrough
  <2>5. passed' \subseteq Calls
    BY <1>3, <2>1 DEF LetThrough
  <2> QED
    BY <1>3, <2>3, <2>4, <2>5 DEF LetThrough
<1>4. ASSUME NEW p \in Processes, Refuse(p) PROVE TypeOK'
  <2>1. Window(p) \subseteq Calls
    BY DEF Window
  <2> QED
    BY <1>4, <2>1 DEF Refuse
<1>5. ASSUME NEW p \in Processes, Empty(p) PROVE TypeOK'
  <2>1. fresh[p] + 1 \in 0..MaxFresh
    BY <1>5, SpanAssumption DEF Empty
  <2> QED
    BY <1>5, <2>1 DEF Empty
<1>6. CASE UNCHANGED vars
  BY <1>6 DEF vars
<1> QED
  BY <1>1, <1>2, <1>3, <1>4, <1>5, <1>6, StepKinds

(* Every variable keeps its type: of finitely many calls let through, each *)
(* has the time, the window and the number of one.                         *)
THEOREM TypeCorrect == Spec => []TypeOK
<1>1. Init => TypeOK
  BY TypeInit
<1>2. TypeOK /\ [Next]_vars => TypeOK'
  BY TypeStep
<1> QED
  BY <1>1, <1>2, PTL DEF Spec

-----------------------------------------------------------------------------
(* What a process remembers                                                *)

(* A call that counts now lies in the stretch that ends now, and one in a  *)
(* stretch that ends later, with now in it, counts now.                    *)
LEMMA CountsIsInStretch ==
  ASSUME TypeOK, CallsArePast, NEW c \in passed
  PROVE  /\ Counts(c.at) <=> c.at \in Stretch(now)
         /\ \A t \in 0..MaxTime :
              now \in Stretch(t) /\ c.at \in Stretch(t) => Counts(c.at)
<1>1. c.at \in Nat /\ now \in Nat /\ c.at <= now /\ Span \in Nat
  BY SpanAssumption DEF TypeOK, Calls, CallsArePast
<1>2. Counts(c.at) <=> c.at \in Stretch(now)
  BY <1>1 DEF Counts, Stretch
<1>3. ASSUME NEW t \in 0..MaxTime, now \in Stretch(t), c.at \in Stretch(t)
      PROVE  Counts(c.at)
  BY <1>1, <1>3 DEF Counts, Stretch
<1> QED
  BY <1>2, <1>3

(* The calls of a process's window that count are those its current window *)
(* let through in the stretch that ends now, and finitely many.            *)
LEMMA WindowIsShare ==
  ASSUME TypeOK, Remembered, CallsArePast, NEW p \in Processes
  PROVE  /\ Window(p) = Share(Current(p), now)
         /\ IsFiniteSet(Window(p))
         /\ Cardinality(Window(p)) \in Nat
<1>1. ASSUME NEW c \in Window(p) PROVE c \in Share(Current(p), now)
  <2>1. c \in hits[p] /\ Counts(c.at)
    BY DEF Window
  <2>2. c \in passed /\ c.window = Current(p)
    BY <2>1 DEF Remembered
  <2> QED
    BY <2>1, <2>2, CountsIsInStretch DEF Share
<1>2. ASSUME NEW c \in Share(Current(p), now) PROVE c \in Window(p)
  <2>1. c \in passed /\ c.window = Current(p) /\ c.at \in Stretch(now)
    BY DEF Share
  <2>2. Counts(c.at)
    BY <2>1, CountsIsInStretch
  <2>3. c \in hits[p]
    BY <2>1, <2>2 DEF Remembered
  <2> QED
    BY <2>2, <2>3 DEF Window
<1>3. Window(p) = Share(Current(p), now)
  BY <1>1, <1>2
<1>4. Share(Current(p), now) \in SUBSET passed
  BY DEF Share
<1> QED
  BY <1>3, <1>4, PartsAreFinite

(* No call is later than now, and each is of a window that was opened.     *)
LEMMA PastStep ==
  ASSUME TypeOK, CallsArePast, [Next]_vars
  PROVE  CallsArePast'
<1> USE DEF CallsArePast
<1>1. CASE Tick
  <2>1. Opened' = Opened /\ passed' = passed
    BY <1>1 DEF Tick, Opened
  <2>2. \A c \in passed : c.at \in Nat
    BY DEF TypeOK, Calls
  <2> QED
    BY <1>1, <2>1, <2>2 DEF Tick, TypeOK
<1>2. CASE \E n \in Budgets : ChangeLimit(n)
  BY <1>2 DEF ChangeLimit, Opened
<1>3. ASSUME NEW p \in Processes, LetThrough(p) PROVE CallsArePast'
  <2>1. Opened' = Opened /\ now' = now /\ passed' = passed \cup {Call(p, now)}
    BY <1>3 DEF LetThrough, Opened
  <2>2. Call(p, now).at = now /\ Call(p, now).window = Current(p)
    BY DEF Call
  <2>3. Current(p) \in Opened /\ now <= now
    BY CurrentIsOpened DEF TypeOK
  <2> QED
    BY <2>1, <2>2, <2>3
<1>4. ASSUME NEW p \in Processes, Refuse(p) PROVE CallsArePast'
  BY <1>4 DEF Refuse, Opened
<1>5. ASSUME NEW p \in Processes, Empty(p) PROVE CallsArePast'
  <2>1. \A q \in Processes : fresh[q] \in Nat /\ fresh[q] <= fresh'[q]
    BY <1>5, SpanAssumption DEF Empty, TypeOK
  <2>2. \A w \in Windows : w[1] \in Processes /\ w[2] \in Nat
    BY SpanAssumption DEF Windows
  <2>3. ASSUME NEW w \in Opened PROVE w \in Opened'
    <3>1. w \in Windows /\ w[2] <= fresh[w[1]]
      BY DEF Opened
    <3>2. /\ w[1] \in Processes /\ w[2] \in Nat /\ fresh[w[1]] \in Nat
          /\ fresh'[w[1]] \in Nat /\ fresh[w[1]] <= fresh'[w[1]]
      BY <1>5, <2>1, <2>2, <3>1, TypeStep, SpanAssumption DEF Empty, TypeOK
    <3>3. w[2] <= fresh'[w[1]]
      BY <3>1, <3>2
    <3> QED
      BY <3>1, <3>3 DEF Opened, Windows
  <2> QED
    BY <1>5, <2>3 DEF Empty
<1>6. CASE UNCHANGED vars
  BY <1>6 DEF vars, Opened
<1> QED
  BY <1>1, <1>2, <1>3, <1>4, <1>5, <1>6, StepKinds

(* A process remembers of its window nothing but calls that were let       *)
(* through, and of those all that count.                                   *)
LEMMA RememberedStep ==
  ASSUME TypeOK, CallsArePast, Remembered, [Next]_vars
  PROVE  Remembered'
<1> USE DEF Remembered
<1>1. CASE Tick
  <2>1. ASSUME NEW c \in passed, Counts(c.at)' PROVE Counts(c.at)
    <3>1. c.at \in Nat /\ now \in Nat /\ Span \in Nat
      BY SpanAssumption DEF TypeOK, Calls
    <3>2. now' = now + 1 /\ counter' = counter
      BY <1>1 DEF Tick
    <3> QED
      BY <1>1, <2>1, <3>1, <3>2 DEF Counts, Tick
  <2> QED
    BY <1>1, <2>1 DEF Tick, Current
<1>2. CASE \E n \in Budgets : ChangeLimit(n)
  BY <1>2 DEF ChangeLimit, Current, Counts
<1>3. ASSUME NEW p \in Processes, LetThrough(p) PROVE Remembered'
  <2> DEFINE k == Call(p, now)
  <2>1. k.window = Current(p)
    BY DEF Call
  <2> HIDE DEF k
  <2>2. /\ \A q \in Processes : hits'[q] = IF q = p THEN Window(p) \cup {k} ELSE hits[q]
        /\ passed' = passed \cup {k} /\ fresh' = fresh
        /\ counter' = counter /\ now' = now
    BY <1>3 DEF LetThrough, k, TypeOK
  <2>3. Window(p) = {c \in hits[p] : Counts(c.at)}
    BY DEF Window
  <2>4. \A q \in Processes : q # p => k.window # Current(q)
    BY <2>1 DEF Current
  <2>5. \A q : Current(q)' = Current(q)
    BY <2>2 DEF Current
  <2>6. \A t : Counts(t)' = Counts(t)
    BY <2>2 DEF Counts
  <2> QED
    BY <2>1, <2>2, <2>3, <2>4, <2>5, <2>6
<1>4. ASSUME NEW p \in Processes, Refuse(p) PROVE Remembered'
  <2>1. /\ \A q \in Processes : hits'[q] = IF q = p THEN Window(p) ELSE hits[q]
        /\ passed' = passed /\ fresh' = fresh
        /\ counter' = counter /\ now' = now
    BY <1>4 DEF Refuse, TypeOK
  <2>2. Window(p) = {c \in hits[p] : Counts(c.at)}
    BY DEF Window
  <2>3. \A q : Current(q)' = Current(q)
    BY <2>1 DEF Current
  <2>4. \A t : Counts(t)' = Counts(t)
    BY <2>1 DEF Counts
  <2> QED
    BY <2>1, <2>2, <2>3, <2>4
<1>5. ASSUME NEW p \in Processes, Empty(p) PROVE Remembered'
  <2>1. /\ \A q \in Processes : hits'[q] = IF q = p THEN {} ELSE hits[q]
        /\ \A q \in Processes : q # p => Current(q)' = Current(q)
        /\ passed' = passed /\ counter' = counter /\ now' = now
    BY <1>5 DEF Empty, TypeOK, Current
  <2>2. \A c \in passed : c.window # Current(p)'
    <3> SUFFICES ASSUME NEW c \in passed, c.window = Current(p)' PROVE FALSE
      OBVIOUS
    <3>1. c.window \in Opened
      BY DEF CallsArePast
    <3>2. c.window[2] <= fresh[c.window[1]]
      BY <3>1 DEF Opened
    <3>3. c.window[1] = p /\ c.window[2] = fresh[p] + 1
      BY <1>5 DEF Empty, TypeOK, Current
    <3>4. fresh[p] \in Nat
      BY SpanAssumption DEF TypeOK
    <3> QED
      BY <3>2, <3>3, <3>4
  <2>3. \A t : Counts(t)' = Counts(t)
    BY <2>1 DEF Counts
  <2> QED
    BY <2>1, <2>2, <2>3
<1>6. CASE UNCHANGED vars
  BY <1>6 DEF vars, Current, Counts
<1> QED
  BY <1>1, <1>2, <1>3, <1>4, <1>5, <1>6, StepKinds

-----------------------------------------------------------------------------
(* What is let through                                                     *)

(* A call that is let through is a new one, alike as it may be to others.  *)
LEMMA CallIsNew ==
  ASSUME TypeOK, CallsAreNumbered, NEW p \in Processes
  PROVE  Call(p, now) \notin passed
<1> DEFINE k == Call(p, now)
<1>1. /\ k.at = now /\ k.window = Current(p)
      /\ k.number = Cardinality(Alike(now, Current(p))) + 1
  BY DEF Call
<1>2. Alike(now, Current(p)) \in SUBSET passed
  BY DEF Alike
<1>3. Cardinality(Alike(now, Current(p))) \in Nat
  BY <1>2, PartsAreFinite
<1> HIDE DEF k
<1>4. k \in passed => k.number <= Cardinality(Alike(now, Current(p)))
  BY <1>1 DEF CallsAreNumbered
<1>5. k \notin passed
  BY <1>1, <1>3, <1>4
<1> QED
  BY <1>5 DEF k

(* Of alike calls, none has a number that there are not as many of.        *)
LEMMA NumberedStep ==
  ASSUME TypeOK, CallsAreNumbered, [Next]_vars
  PROVE  CallsAreNumbered'
<1> USE DEF CallsAreNumbered
<1>1. ASSUME passed' = passed PROVE CallsAreNumbered'
  BY <1>1 DEF Alike
<1>2. ASSUME NEW p \in Processes, LetThrough(p) PROVE CallsAreNumbered'
  <2> DEFINE k == Call(p, now)
             new(c) == {d \in passed \cup {k} : d.at = c.at /\ d.window = c.window}
  <2>1. /\ k.at = now /\ k.window = Current(p)
        /\ k.number = Cardinality(Alike(now, Current(p))) + 1
    BY DEF Call
  <2>2. passed' = passed \cup {k}
    BY <1>2 DEF LetThrough
  <2>3. k \notin passed
    BY CallIsNew
  <2>4. IsFiniteSet(passed \cup {k})
    BY FS_AddElement DEF TypeOK
  <2> HIDE DEF k
  <2>5. ASSUME NEW c \in passed PROVE c.number <= Cardinality(new(c))
    <3>1. Alike(c.at, c.window) \in SUBSET new(c)
      BY DEF Alike
    <3>2. new(c) \in SUBSET (passed \cup {k})
      OBVIOUS
    <3> HIDE DEF new
    <3>3. IsFiniteSet(new(c)) /\ Cardinality(new(c)) \in Nat
      BY <2>4, <3>2, FS_Subset, FS_CardinalityType
    <3>4. Cardinality(Alike(c.at, c.window)) <= Cardinality(new(c))
      BY <3>1, <3>3, FS_Subset
    <3>5. Alike(c.at, c.window) \in SUBSET passed
      BY DEF Alike
    <3>6. Cardinality(Alike(c.at, c.window)) \in Nat
      BY <3>5, PartsAreFinite
    <3>7. c.number <= Cardinality(Alike(c.at, c.window)) /\ c.number \in Nat
      BY DEF TypeOK, Calls
    <3> QED
      BY <3>3, <3>4, <3>6, <3>7
  <2>6. k.number <= Cardinality(new(k))
    <3>1. new(k) = Alike(now, Current(p)) \cup {k}
      BY <2>1 DEF Alike
    <3>2. Alike(now, Current(p)) \in SUBSET passed
      BY DEF Alike
    <3>3. /\ IsFiniteSet(Alike(now, Current(p)))
          /\ Cardinality(Alike(now, Current(p))) \in Nat
      BY <3>2, PartsAreFinite
    <3>4. Cardinality(Alike(now, Current(p)) \cup {k})
            = Cardinality(Alike(now, Current(p))) + 1
      BY <2>3, <3>2, <3>3, FS_AddElement
    <3> HIDE DEF new
    <3> QED
      BY <2>1, <3>1, <3>3, <3>4
  <2>7. \A c : Alike(c.at, c.window)' = new(c)
    BY <2>2 DEF Alike
  <2> HIDE DEF new
  <2> QED
    BY <2>2, <2>5, <2>6, <2>7
<1>3. \/ passed' = passed
      \/ \E p \in Processes : LetThrough(p)
  BY StepKinds DEF Tick, ChangeLimit, Refuse, Empty, vars
<1> QED
  BY <1>1, <1>2, <1>3

(* No window lets through more than the limit in a stretch of time: when a *)
(* call is let through, what its window let through in a stretch with now  *)
(* in it still counts, and there is less of it than the limit.             *)
LEMMA BudgetStep ==
  ASSUME TypeOK, Remembered, CallsArePast, BudgetKept, [Next]_vars
  PROVE  BudgetKept'
<1>1. limit \in Nat /\ highest \in Nat /\ limit <= highest
  BY BudgetsAssumption DEF TypeOK, BudgetKept
<1>2. ASSUME NEW w \in Windows, NEW t \in 0..MaxTime
      PROVE  /\ Share(w, t) \in SUBSET passed
             /\ IsFiniteSet(Share(w, t)) /\ Cardinality(Share(w, t)) \in Nat
             /\ Cardinality(Share(w, t)) <= highest
  <2>1. Share(w, t) \in SUBSET passed
    BY DEF Share
  <2> QED
    BY <2>1, PartsAreFinite DEF BudgetKept
<1>3. ASSUME passed' = passed, counter' = counter,
             limit' <= highest', highest' \in Nat, highest <= highest'
      PROVE  BudgetKept'
  <2>1. \A w, t : Share(w, t)' = Share(w, t)
    BY <1>3 DEF Share, Stretch
  <2>2. ASSUME NEW w \in Windows, NEW t \in 0..MaxTime
        PROVE  Cardinality(Share(w, t)) <= highest'
    BY <1>1, <1>2, <1>3
  <2> QED
    BY <1>3, <2>1, <2>2 DEF BudgetKept, Windows
<1>4. ASSUME NEW p \in Processes, LetThrough(p) PROVE BudgetKept'
  <2> DEFINE k == Call(p, now)
             new(w, t) == {c \in passed \cup {k} : c.window = w /\ c.at \in Stretch(t)}
  <2>1. k.at = now /\ k.window = Current(p)
    BY DEF Call
  <2> HIDE DEF k
  <2>2. /\ passed' = passed \cup {k} /\ counter' = counter
        /\ limit' = limit /\ highest' = highest
    BY <1>4 DEF LetThrough, k
  <2>3. ASSUME NEW w \in Windows, NEW t \in 0..MaxTime
        PROVE  Cardinality(new(w, t)) <= highest
    <3>1. CASE w # Current(p) \/ now \notin Stretch(t)
      <4>1. new(w, t) = Share(w, t)
        BY <2>1, <3>1 DEF Share
      <4> HIDE DEF new
      <4> QED
        BY <1>2, <4>1
    <3>2. CASE w = Current(p) /\ now \in Stretch(t)
      <4>1. Share(w, t) \in SUBSET Window(p)
        <5> SUFFICES ASSUME NEW c \in Share(w, t) PROVE c \in Window(p)
          OBVIOUS
        <5>1. c \in passed /\ c.window = Current(p) /\ c.at \in Stretch(t)
          BY <3>2 DEF Share
        <5>2. Counts(c.at)
          BY <3>2, <5>1, CountsIsInStretch
        <5>3. c \in hits[p]
          BY <5>1, <5>2 DEF Remembered
        <5> QED
          BY <5>2, <5>3 DEF Window
      <4>2. IsFiniteSet(Window(p)) /\ Cardinality(Window(p)) \in Nat
        BY WindowIsShare
      <4>3. Cardinality(Share(w, t)) <= Cardinality(Window(p))
        BY <4>1, <4>2, FS_Subset
      <4>4. Cardinality(Window(p)) < limit
        BY <1>4 DEF LetThrough
      <4>5. new(w, t) = Share(w, t) \cup {k}
        BY <2>1, <3>2 DEF Share
      <4>6. IsFiniteSet(Share(w, t)) /\ Cardinality(Share(w, t)) \in Nat
        BY <1>2
      <4>7. Cardinality(Share(w, t) \cup {k})
              = IF k \in Share(w, t) THEN Cardinality(Share(w, t))
                ELSE Cardinality(Share(w, t)) + 1
        BY <4>6, FS_AddElement
      <4>8. Cardinality(Share(w, t) \cup {k}) \in Nat
        BY <4>6, FS_AddElement, FS_CardinalityType
      <4> HIDE DEF new
      <4> QED
        BY <1>1, <4>2, <4>3, <4>4, <4>5, <4>6, <4>7, <4>8
    <3> QED
      BY <3>1, <3>2
  <2>4. \A w, t : Share(w, t)' = new(w, t)
    BY <2>2 DEF Share, Stretch
  <2> HIDE DEF new
  <2> QED
    BY <1>1, <2>2, <2>3, <2>4 DEF BudgetKept, Windows
<1>5. CASE \E n \in Budgets : ChangeLimit(n)
  <2>1. PICK n \in Budgets : ChangeLimit(n)
    BY <1>5
  <2>2. n \in Nat
    BY BudgetsAssumption
  <2> QED
    BY <1>1, <1>3, <2>1, <2>2 DEF ChangeLimit
<1>6. CASE \/ Tick \/ UNCHANGED vars
           \/ \E p \in Processes : Refuse(p)
           \/ \E p \in Processes : Empty(p)
  <2>1. /\ passed' = passed /\ counter' = counter
        /\ limit' = limit /\ highest' = highest
    BY <1>6 DEF Tick, Refuse, Empty, vars
  <2> QED
    BY <1>1, <1>3, <2>1
<1> QED
  BY <1>4, <1>5, <1>6, StepKinds

(* The invariant starts, and every step keeps it.                          *)
LEMMA LimitsInvInit == Init => LimitsInv
<1> SUFFICES ASSUME Init PROVE LimitsInv
  OBVIOUS
<1>1. TypeOK
  BY TypeInit
<1>2. passed = {} /\ limit = highest /\ \A p \in Processes : hits[p] = {}
  BY DEF Init
<1>3. Remembered /\ CallsArePast /\ CallsAreNumbered
  BY <1>2 DEF Remembered, CallsArePast, CallsAreNumbered
<1>4. BudgetKept
  <2>1. highest \in Nat
    BY <1>1, BudgetsAssumption DEF TypeOK
  <2>2. \A w \in Windows, t \in 0..MaxTime : Share(w, t) = {}
    BY <1>2 DEF Share
  <2>3. Cardinality({}) = 0
    BY FS_EmptySet
  <2> QED
    BY <1>2, <2>1, <2>2, <2>3 DEF BudgetKept
<1> QED
  BY <1>1, <1>3, <1>4 DEF LimitsInv

LEMMA LimitsInvStep == LimitsInv /\ [Next]_vars => LimitsInv'
BY TypeStep, RememberedStep, PastStep, NumberedStep, BudgetStep DEF LimitsInv

LEMMA LimitsInvHolds == Spec => []LimitsInv
<1>1. Init => LimitsInv
  BY LimitsInvInit
<1>2. LimitsInv /\ [Next]_vars => LimitsInv'
  BY LimitsInvStep
<1> QED
  BY <1>1, <1>2, PTL DEF Spec

-----------------------------------------------------------------------------
(* In no stretch of time is more let through than the highest limit there  *)
(* was, once for each window that was opened: once per API process, and    *)
(* once more for each of its restarts and, at the panel's login, for each  *)
(* right password.                                                         *)
THEOREM StretchesAreBounded == Spec => []WindowBounded
<1>1. LimitsInv => WindowBounded
  <2> SUFFICES ASSUME LimitsInv, NEW t \in 0..MaxTime
               PROVE  Cardinality(Through(Stretch(t)))
                        <= highest * Cardinality(Opened)
    BY DEF WindowBounded
  <2> DEFINE let == Through(Stretch(t))
             window == [c \in let |-> c.window]
  <2>1. let \in SUBSET passed
    BY DEF Through
  <2>2. IsFiniteSet(let)
    BY <2>1, PartsAreFinite DEF LimitsInv
  <2>3. window \in [let -> Opened]
    BY <2>1 DEF LimitsInv, CallsArePast
  <2>4. ASSUME NEW w \in Opened
        PROVE  Cardinality({c \in let : window[c] = w}) <= highest
    <3>1. {c \in let : window[c] = w} = Share(w, t)
      BY DEF Through, Share
    <3>2. w \in Windows
      BY DEF Opened
    <3>3. Cardinality(Share(w, t)) <= highest
      BY <3>2 DEF LimitsInv, BudgetKept
    <3> HIDE DEF let, window
    <3> QED
      BY <3>1, <3>3
  <2>5. highest \in Nat
    BY BudgetsAssumption DEF LimitsInv, TypeOK
  <2> HIDE DEF let, window
  <2>6. Cardinality(let) <= highest * Cardinality(Opened)
    BY <2>2, <2>3, <2>4, <2>5, AtMostPerKey, WindowsAreFinite
  <2> QED
    BY <2>6 DEF let
<1> QED
  BY <1>1, LimitsInvHolds, PTL

(* A process never counts more calls than were let through in the stretch  *)
(* of time that its limit speaks of: what it refuses is not held against   *)
(* the caller, nor is what another process or an older window remembers.   *)
THEOREM RefusalsCountWhatPassed == Spec => []RefusalsAreEarned
<1>1. LimitsInv => RefusalsAreEarned
  <2> SUFFICES ASSUME LimitsInv, NEW p \in Processes
               PROVE  Cardinality(Window(p))
                        <= Cardinality(Through(Stretch(now)))
    BY DEF RefusalsAreEarned
  <2>1. Window(p) = Share(Current(p), now)
    BY WindowIsShare DEF LimitsInv
  <2>2. Window(p) \in SUBSET Through(Stretch(now))
    BY <2>1 DEF Share, Through
  <2>3. Through(Stretch(now)) \in SUBSET passed
    BY DEF Through
  <2>4. IsFiniteSet(Through(Stretch(now)))
    BY <2>3, PartsAreFinite DEF LimitsInv
  <2> QED
    BY <2>2, <2>4, FS_Subset
<1> QED
  BY <1>1, LimitsInvHolds, PTL

(* The history these bounds speak of counts every call: one that is let    *)
(* through is entered as a new one, also when its window let through       *)
(* others at the same time.                                                *)
CallsAreCounted ==
  [][\A p \in Processes :
       LetThrough(p) => Cardinality(passed') = Cardinality(passed) + 1]_vars

(* Every call that is let through is counted.                              *)
THEOREM EveryCallCounts == Spec => CallsAreCounted
<1>1. ASSUME LimitsInv, NEW p \in Processes, LetThrough(p)
      PROVE  Cardinality(passed') = Cardinality(passed) + 1
  <2>1. Call(p, now) \notin passed
    BY <1>1, CallIsNew DEF LimitsInv
  <2>2. IsFiniteSet(passed)
    BY <1>1 DEF LimitsInv, TypeOK
  <2>3. Cardinality(passed \cup {Call(p, now)}) = Cardinality(passed) + 1
    BY <2>1, <2>2, FS_AddElement
  <2>4. passed' = passed \cup {Call(p, now)}
    BY <1>1 DEF LetThrough
  <2> QED
    BY <2>3, <2>4
<1>2. LimitsInv /\ [Next]_vars =>
        [\A p \in Processes :
           LetThrough(p) => Cardinality(passed') = Cardinality(passed) + 1]_vars
  BY <1>1
<1> QED
  BY <1>2, LimitsInvHolds, PTL DEF Spec, CallsAreCounted
=============================================================================
