---------------------------- MODULE UnitGC_proof ----------------------------
(***************************************************************************)
(* The collector of units for any set of units, any references between     *)
(* them and any width of gc_marker.                                        *)
(*                                                                         *)
(* The state of the search is described by the labels L of the units, that *)
(* is, the distance of their gc_marker from the manager's, the stack s,    *)
(* the references R, the units K that are kept and the units N that are    *)
(* needed, so that the lemmas about its steps need no primes.              *)
(***************************************************************************)
EXTENDS UnitGC, TLAPS, FiniteSetTheorems

CallFrame == [unit : Units, todo : SUBSET Units, at : Units \cup {NoUnit}, is_bad : BOOLEAN]

\* What refers to u.
Ref(R, u) == {v \in Units : <<v, u>> \in R}

\* A unit that is needed was found, and the calls under way are about to say so.
Unwind(s, L) == s # <<>> /\ s[1].at # NoUnit /\ L[s[1].at] = GOOD

\* A call of unit_gc_sweep() in its loop: what it has looked at has a label, BAD if it
\* still takes its unit for bad, and GOOD only if a needed unit has just been found.
FrameFine(f, L, R, K, unwinding) ==
    /\ f.unit \notin K /\ L[f.unit] = IN_PATH
    /\ f.todo \subseteq Ref(R, f.unit)
    /\ f.at # NoUnit => f.at \in Ref(R, f.unit) /\ L[f.at] \in 0 .. 3
    /\ \A v \in Ref(R, f.unit) :
         v \notin f.todo /\ v # f.at => /\ L[v] \in 0 .. 3
                                        /\ f.is_bad => L[v] = BAD
                                        /\ L[v] = GOOD => unwinding

\* The calls under way are those for the units labelled IN_PATH, each looking at the
\* unit of the next one; for those in X the call has not begun.
StackFine(s, L, R, K, X) ==
    /\ \A i \in 1 .. Len(s) : FrameFine(s[i], L, R, K, Unwind(s, L))
    /\ \A i, j \in 1 .. Len(s) : s[i].unit = s[j].unit => i = j
    /\ \A u \in Units \ X : L[u] = IN_PATH => \E i \in 1 .. Len(s) : s[i].unit = u
    /\ \A i \in 1 .. Len(s) - 1 : s[i + 1].at = s[i].unit

\* What the labels say of a unit, and of those that refer to one labelled UNSURE.
LabelsFine(L, R, K, N) ==
    /\ \A u \in Units : L[u] = BAD => u \notin N
    /\ \A u \in Units : L[u] = GOOD => u \in N
    /\ \A u \in Units : L[u] = UNSURE => u \notin K
    /\ \A e \in R : L[e[2]] = UNSURE => L[e[1]] \in {UNSURE, BAD, IN_PATH}

labels == [u \in Units |-> mark[u] - marker]
Waiting == {gc_queue[i] : i \in 1 .. Len(gc_queue)}
Pending == Waiting \cup cleanup \cup overlooked \cup ({popped} \ {NoUnit})

TypeOK ==
    /\ units \subseteq Units
    /\ keep \subseteq units /\ jobs \subseteq units /\ Kept \subseteq units
    /\ refs \subseteq units \X units /\ handlers \subseteq refs
    /\ overlooked \subseteq units
    /\ gc_queue \in Seq(Units) /\ Waiting \subseteq units
    /\ cleanup \subseteq units \ Kept
    /\ marker \in 0 .. Modulus - 1
    /\ mark \in [Units -> 0 .. Modulus - 1]
    /\ popped \in units \cup {NoUnit}
    /\ stack \in Seq(CallFrame)
    /\ phase \in {"idle", "loop", "gc", "cleanup"}
    /\ runs \in 0 .. MaxRuns

PhaseOK ==
    /\ phase # "gc" => popped = NoUnit
    /\ popped = NoUnit => stack = <<>>
    /\ phase = "gc" => marker \in 1 .. Modulus - 5
    /\ phase = "cleanup" => Waiting \cap cleanup = {}
    /\ phase = "idle" => \A e \in refs : e[1] \notin cleanup /\ e[2] \notin cleanup

\* A label is no older than the runs so far, or so old that the runs to come do not
\* get there.
Fresh ==
    \A u \in Units :
       \/ mark[u] = 0
       \/ mark[u] >= marker - 4 * runs /\ mark[u] <= marker + 3
       \/ mark[u] >= marker + 4 * (MaxRuns - runs) + 4

Swept ==
    phase = "gc" => /\ StackFine(stack, labels, refs, Kept, {})
                    /\ \A i \in 1 .. Len(stack) : stack[i].unit \in units
                    /\ LabelsFine(labels, refs, Kept, NeededUnits)
                    /\ popped # NoUnit => labels[popped] \in 0 .. 3

\* What nothing needs is queued or was overlooked, or is led to from what is.
Covered == units \subseteq Reachable(Kept \cup Pending, refs)

Inv == TypeOK /\ PhaseOK /\ Fresh /\ Swept /\ NoUsedCollected /\ Covered

-----------------------------------------------------------------------------
(* Reachability.                                                           *)

\* Reachable() contains where it starts from.
LEMMA ReachableStart == ASSUME NEW S \in SUBSET Units, NEW E PROVE S \subseteq Reachable(S, E)
BY Zenon DEF Reachable

\* It is closed.
LEMMA ReachableClosed ==
  ASSUME NEW S, NEW E \in SUBSET (Units \X Units), NEW e \in E, e[1] \in Reachable(S, E)
  PROVE  e[2] \in Reachable(S, E)
BY Zenon DEF Reachable, Closed

\* It is contained in every closed set that contains where it starts from.
LEMMA ReachableLeast ==
  ASSUME NEW S, NEW E, NEW C \in SUBSET Units, S \subseteq C, Closed(C, E)
  PROVE  Reachable(S, E) \subseteq C
BY Zenon DEF Reachable

\* Only units are reached.
LEMMA ReachableUnits == ASSUME NEW S, NEW E PROVE Reachable(S, E) \in SUBSET Units
BY Zenon DEF Reachable

\* More is reached from more along more.
LEMMA ReachableMono ==
  ASSUME NEW S, NEW T \in SUBSET Units, S \subseteq T,
         NEW E, NEW D \in SUBSET (Units \X Units), E \subseteq D
  PROVE  Reachable(S, E) \subseteq Reachable(T, D)
<1>1. Reachable(T, D) \in SUBSET Units
  BY ReachableUnits, Zenon
<1>2. Closed(Reachable(T, D), E)
  BY ReachableClosed, Zenon DEF Closed
<1>3. S \subseteq Reachable(T, D)
  BY ReachableStart, Zenon
<1> QED BY <1>1, <1>2, <1>3, ReachableLeast, Zenon

\* What nothing leads to is not reached.
LEMMA Untouched ==
  ASSUME NEW S \in SUBSET Units, NEW E \in SUBSET (Units \X Units), NEW X,
         S \cap X = {}, \A e \in E : e[2] \notin X
  PROVE  X \cap Reachable(S, E) = {}
<1>1. Units \ X \in SUBSET Units /\ S \subseteq Units \ X
  BY Zenon
<1>2. Closed(Units \ X, E)
  BY Zenon DEF Closed
<1>3. Reachable(S, E) \subseteq Units \ X
  BY <1>1, <1>2, ReachableLeast, Zenon
<1> QED BY <1>3, Zenon

-----------------------------------------------------------------------------
(* Stacks.                                                                 *)

\* What pushing a frame comes to.
LEMMA PushFacts ==
  ASSUME NEW F, NEW s \in Seq(F), NEW f \in F
  PROVE  LET t == <<f>> \o s
         IN /\ t \in Seq(F) /\ Len(t) = Len(s) + 1 /\ t[1] = f /\ t # <<>>
            /\ \A i \in 1 .. Len(s) : t[i + 1] = s[i]
            /\ \A i \in 2 .. Len(t) : t[i] = s[i - 1]
OBVIOUS

\* A stack that has a frame is not empty.
LEMMA NonEmpty == ASSUME NEW F, NEW t \in Seq(F), NEW i \in 1 .. Len(t) PROVE t # <<>>
OBVIOUS

\* What popping one comes to.
LEMMA TailFacts ==
  ASSUME NEW F, NEW s \in Seq(F), s # <<>>
  PROVE  /\ Len(s) > 0 /\ Head(s) = s[1] /\ s[1] \in F
         /\ Tail(s) \in Seq(F) /\ Len(Tail(s)) = Len(s) - 1
         /\ \A i \in 1 .. Len(s) - 1 : Tail(s)[i] = s[i + 1]
OBVIOUS

\* What replacing the topmost one comes to.
LEMMA ReplaceFacts ==
  ASSUME NEW F, NEW s \in Seq(F), s # <<>>, NEW f \in F
  PROVE  LET t == <<f>> \o Tail(s)
         IN /\ t \in Seq(F) /\ Len(t) = Len(s) /\ t[1] = f /\ t # <<>>
            /\ \A i \in 2 .. Len(s) : t[i] = s[i]
BY TailFacts, PushFacts

-----------------------------------------------------------------------------
(* Labels.                                                                 *)

\* What the lemmas below are about.
Setting(L, R, K, N) ==
    /\ L \in [Units -> Int] /\ R \subseteq Units \X Units
    /\ K \subseteq Units /\ N = Reachable(K, R)

GoodSet(L, R, u) == Reachable({u}, {e \in R : L[e[2]] = UNSURE})

\* The units unit_gc_mark_good() labels: u, and units labelled UNSURE, all those among
\* them that they refer to included.
LEMMA GoodUnits ==
  ASSUME NEW L, NEW R, NEW K, NEW N, Setting(L, R, K, N), NEW u \in Units
  PROVE  LET G == GoodSet(L, R, u)
         IN /\ u \in G /\ G \subseteq Units
            /\ \A v \in G : v = u \/ L[v] = UNSURE
            /\ \A e \in R : e[1] \in G /\ L[e[2]] = UNSURE => e[2] \in G
            /\ u \in N => G \subseteq N
<1> DEFINE E == {e \in R : L[e[2]] = UNSURE}
           G == Reachable({u}, E)
           C == {v \in Units : v = u \/ L[v] = UNSURE}
<1>1. E \in SUBSET (Units \X Units) /\ R \in SUBSET (Units \X Units)
  BY Zenon DEF Setting
<1>2. u \in G /\ G \subseteq Units
  BY ReachableStart, Zenon DEF Reachable
<1>3. G \subseteq C
  <2>1. Closed(C, E)
    <3> SUFFICES ASSUME NEW e \in E PROVE e[2] \in C
      BY Zenon DEF Closed
    <3> QED BY <1>1, Zenon
  <2>2. C \in SUBSET Units /\ {u} \subseteq C
    BY Zenon
  <2> HIDE DEF C, E
  <2> QED BY <2>1, <2>2, ReachableLeast, Zenon
<1>4. \A e \in R : e[1] \in G /\ L[e[2]] = UNSURE => e[2] \in G
  BY <1>1, ReachableClosed, Zenon
<1>5. ASSUME u \in N PROVE G \subseteq N
  <2>1. Closed(N, E)
    BY <1>1, ReachableClosed, Zenon DEF Closed, Setting
  <2>2. N \in SUBSET Units
    BY Zenon DEF Setting, Reachable
  <2> QED BY <1>5, <2>1, <2>2, ReachableLeast
<1> HIDE DEF E, G
<1>6. \A v \in G : v = u \/ L[v] = UNSURE
  BY <1>3, Zenon
<1> QED BY <1>2, <1>4, <1>5, <1>6, Zenon DEF E, G, GoodSet

\* unit_gc_mark_good() on a needed unit.
LEMMA GoodLabels ==
  ASSUME NEW L, NEW R, NEW K, NEW N, Setting(L, R, K, N), LabelsFine(L, R, K, N), NEW u \in N,
         NEW G, G = GoodSet(L, R, u),
         NEW M, M = [v \in Units |-> IF v \in G THEN GOOD ELSE L[v]]
  PROVE  LabelsFine(M, R, K, N)
<1>1. u \in Units /\ R \subseteq Units \X Units
  BY Zenon DEF Setting, Reachable
<1>2. /\ u \in G /\ G \subseteq Units
      /\ \A v \in G : v = u \/ L[v] = UNSURE
      /\ \A e \in R : e[1] \in G /\ L[e[2]] = UNSURE => e[2] \in G
      /\ G \subseteq N
  BY <1>1, GoodUnits, Zenon
<1>3. /\ \A v \in Units : M[v] = BAD => v \notin N
      /\ \A v \in Units : M[v] = GOOD => v \in N
      /\ \A v \in Units : M[v] = UNSURE => v \notin K
  BY <1>2 DEF LabelsFine, GOOD, BAD, UNSURE
<1>4. ASSUME NEW e \in R, M[e[2]] = UNSURE PROVE M[e[1]] \in {UNSURE, BAD, IN_PATH}
  <2>1. e[1] \in Units /\ e[2] \in Units
    BY <1>1, Zenon
  <2>2. L[e[2]] = UNSURE /\ e[2] \notin G
    BY <1>4, <2>1 DEF GOOD, UNSURE
  <2>3. e[1] \notin G
    BY <1>2, <2>2, Zenon
  <2> QED BY <2>1, <2>2, <2>3, Zenon DEF LabelsFine
<1> QED BY <1>3, <1>4, Zenon DEF LabelsFine

\* A unit gets the label BAD that is not needed.
LEMMA BadLabel ==
  ASSUME NEW L, NEW R, NEW K, NEW N, Setting(L, R, K, N), LabelsFine(L, R, K, N), NEW u \in Units, u \notin N,
         NEW M, M = [L EXCEPT ![u] = BAD]
  PROVE  LabelsFine(M, R, K, N)
BY DEF Setting, LabelsFine, GOOD, BAD, UNSURE, IN_PATH

\* The search comes to a unit it has not seen.
LEMMA PathLabel ==
  ASSUME NEW L, NEW R, NEW K, NEW N, Setting(L, R, K, N), LabelsFine(L, R, K, N), NEW u \in Units,
         NEW M, M = [L EXCEPT ![u] = IN_PATH]
  PROVE  LabelsFine(M, R, K, N)
BY DEF Setting, LabelsFine, GOOD, BAD, UNSURE, IN_PATH

\* Nothing that refers to u is known to be needed.
LEMMA UnsureLabel ==
  ASSUME NEW L, NEW R, NEW K, NEW N, Setting(L, R, K, N), LabelsFine(L, R, K, N), NEW u \in Units, u \notin K,
         \A v \in Ref(R, u) : L[v] \in {UNSURE, BAD, IN_PATH},
         NEW M, M = [L EXCEPT ![u] = UNSURE]
  PROVE  LabelsFine(M, R, K, N)
BY DEF Setting, LabelsFine, Ref, GOOD, BAD, UNSURE, IN_PATH

\* A unit all of whose referrers are BAD is not needed.
LEMMA BadNotNeeded ==
  ASSUME NEW L, NEW R, NEW K, NEW N, Setting(L, R, K, N), LabelsFine(L, R, K, N), NEW u \in Units, u \notin K,
         \A v \in Ref(R, u) : L[v] = BAD
  PROVE  u \notin N
<1> DEFINE C == N \ {u}
<1>1. N \in SUBSET Units /\ R \in SUBSET (Units \X Units) /\ K \in SUBSET Units
  BY Zenon DEF Setting, Reachable
<1>2. K \subseteq C
  BY <1>1, ReachableStart, Zenon DEF Setting
<1>3. Closed(C, R)
  <2> SUFFICES ASSUME NEW e \in R, e[1] \in C PROVE e[2] \in C
    BY Zenon DEF Closed
  <2>1. e[2] \in N
    BY <1>1, ReachableClosed, Zenon DEF Setting
  <2>2. e = <<e[1], e[2]>> /\ e[1] \in Units
    BY <1>1
  <2>3. e[2] # u
    BY <2>2, ZenonT(30) DEF Ref, LabelsFine
  <2> QED BY <2>1, <2>3, Zenon
<1> QED BY <1>1, <1>2, <1>3, ReachableLeast, Zenon DEF Setting

\* Once no call is under way, no unit labelled UNSURE is needed.
LEMMA UnsureNotNeeded ==
  ASSUME NEW L, NEW R, NEW K, NEW N, Setting(L, R, K, N), LabelsFine(L, R, K, N), NEW u \in Units,
         L[u] = UNSURE, \A v \in Units : L[v] # IN_PATH
  PROVE  u \notin N
<1> DEFINE C == {v \in N : L[v] # UNSURE}
<1>1. N \in SUBSET Units /\ R \in SUBSET (Units \X Units) /\ K \in SUBSET Units
  BY Zenon DEF Setting, Reachable
<1>2. K \subseteq C
  BY <1>1, ReachableStart, Zenon DEF Setting, LabelsFine
<1>3. Closed(C, R)
  <2> SUFFICES ASSUME NEW e \in R, e[1] \in C PROVE e[2] \in C
    BY Zenon DEF Closed
  <2>1. e[2] \in N
    BY <1>1, ReachableClosed, Zenon DEF Setting
  <2>2. e[1] \in Units
    BY <1>1, Zenon
  <2>3. L[e[2]] # UNSURE
    BY <2>2, Zenon DEF LabelsFine
  <2> QED BY <2>1, <2>3, Zenon
<1> QED BY <1>1, <1>2, <1>3, ReachableLeast, Zenon DEF Setting

-----------------------------------------------------------------------------
(* The calls under way.                                                    *)

\* No unit loses its label, and what is BAD stays that.
Moves(L, M) == \A v \in Units : /\ L[v] \in 0 .. 3 => M[v] \in 0 .. 3
                                /\ L[v] = BAD => M[v] = BAD

NewGood(L, M) == \E v \in Units : M[v] = GOOD /\ L[v] # GOOD

\* A call whose unit stays in the path is not disturbed by new labels, but for GOOD.
LEMMA FrameKept ==
  ASSUME NEW L \in [Units -> Int], NEW M \in [Units -> Int], NEW R, NEW K, NEW f \in CallFrame,
         NEW w \in BOOLEAN, NEW x \in BOOLEAN,
         FrameFine(f, L, R, K, w), M[f.unit] = IN_PATH, Moves(L, M), w \/ NewGood(L, M) => x
  PROVE  FrameFine(f, M, R, K, x)
<1>1. f.unit \in Units /\ f.at \in Units \cup {NoUnit}
  BY Zenon DEF CallFrame
<1>2. \A v \in Ref(R, f.unit) : v \in Units
  BY Zenon DEF Ref
<1>3. ASSUME NEW v \in Ref(R, f.unit), v \notin f.todo /\ v # f.at
      PROVE  M[v] \in 0 .. 3 /\ (f.is_bad => M[v] = BAD) /\ (M[v] = GOOD => x)
  <2>1. L[v] \in 0 .. 3 /\ (f.is_bad => L[v] = BAD) /\ (L[v] = GOOD => w)
    BY <1>3, Zenon DEF FrameFine
  <2> QED BY <1>2, <2>1, Zenon DEF Moves, NewGood
<1>4. f.at # NoUnit => f.at \in Ref(R, f.unit) /\ M[f.at] \in 0 .. 3
  BY <1>1, Zenon DEF FrameFine, Moves
<1> QED BY <1>3, <1>4, Zenon DEF FrameFine

\* The topmost call goes on.
LEMMA StackReplace ==
  ASSUME NEW L \in [Units -> Int], NEW M \in [Units -> Int], NEW R, NEW K, NEW X,
         NEW s \in Seq(CallFrame), s # <<>>, StackFine(s, L, R, K, {}),
         NEW f \in CallFrame, f.unit = s[1].unit,
         NEW t, t = <<f>> \o Tail(s),
         FrameFine(f, M, R, K, Unwind(t, M)), Moves(L, M),
         \A v \in Units : L[v] = IN_PATH => M[v] = IN_PATH,
         \A v \in Units \ X : M[v] = IN_PATH => L[v] = IN_PATH,
         Unwind(s, L) \/ NewGood(L, M) => Unwind(t, M)
  PROVE  StackFine(t, M, R, K, X)
<1>1. /\ t \in Seq(CallFrame) /\ Len(t) = Len(s) /\ t[1] = f /\ Len(s) > 0
      /\ \A i \in 2 .. Len(s) : t[i] = s[i]
  BY ReplaceFacts, TailFacts
<1>2. ASSUME NEW i \in 1 .. Len(t) PROVE t[i].unit = s[i].unit /\ t[i] \in CallFrame /\ s[i] \in CallFrame
  BY <1>1
<1>3. ASSUME NEW i \in 1 .. Len(t) PROVE FrameFine(t[i], M, R, K, Unwind(t, M))
  <2>1. CASE i = 1
    BY <1>1, <2>1, Zenon
  <2>2. CASE i # 1
    <3>1. t[i] = s[i] /\ s[i] \in CallFrame /\ s[i].unit \in Units
      BY <1>1, <1>2, <2>2 DEF CallFrame
    <3>2. FrameFine(s[i], L, R, K, Unwind(s, L))
      BY <1>1, Zenon DEF StackFine
    <3>3. M[s[i].unit] = IN_PATH
      BY <3>1, <3>2, Zenon DEF FrameFine
    <3>4. Unwind(s, L) \in BOOLEAN /\ Unwind(t, M) \in BOOLEAN
      BY Zenon DEF Unwind
    <3> QED BY <3>1, <3>2, <3>3, <3>4, FrameKept, Zenon
  <2> QED BY <2>1, <2>2, Zenon
<1>4. \A i, j \in 1 .. Len(t) : t[i].unit = t[j].unit => i = j
  BY <1>1, <1>2 DEF StackFine
<1>5. \A u \in Units \ X : M[u] = IN_PATH => \E i \in 1 .. Len(t) : t[i].unit = u
  BY <1>1, <1>2 DEF StackFine
<1>6. \A i \in 1 .. Len(t) - 1 : t[i + 1].at = t[i].unit
  <2> SUFFICES ASSUME NEW i \in 1 .. Len(t) - 1 PROVE t[i + 1].at = t[i].unit
    BY Zenon
  <2>1. i + 1 \in 2 .. Len(s) /\ i \in 1 .. Len(t) /\ i \in 1 .. Len(s) - 1
    BY <1>1
  <2>2. t[i + 1] = s[i + 1] /\ t[i].unit = s[i].unit
    BY <1>1, <1>2, <2>1, Zenon
  <2> QED BY <2>1, <2>2, Zenon DEF StackFine
<1> QED BY <1>3, <1>4, <1>5, <1>6, Zenon DEF StackFine

\* The topmost call returns.
LEMMA StackTail ==
  ASSUME NEW L \in [Units -> Int], NEW M \in [Units -> Int], NEW R, NEW K,
         NEW s \in Seq(CallFrame), s # <<>>, StackFine(s, L, R, K, {}),
         NEW t, t = Tail(s), Moves(L, M),
         M[s[1].unit] # IN_PATH,
         \A v \in Units \ {s[1].unit} : L[v] = IN_PATH <=> M[v] = IN_PATH,
         Unwind(s, L) \/ NewGood(L, M) => t = <<>> \/ Unwind(t, M)
  PROVE  StackFine(t, M, R, K, {})
<1>1. /\ t \in Seq(CallFrame) /\ Len(t) = Len(s) - 1 /\ Len(s) > 0 /\ s[1] \in CallFrame
      /\ \A i \in 1 .. Len(t) : t[i] = s[i + 1]
  BY TailFacts
<1>2. ASSUME NEW i \in 1 .. Len(t)
      PROVE  t[i] = s[i + 1] /\ t[i] \in CallFrame /\ t[i].unit # s[1].unit /\ i + 1 \in 1 .. Len(s) /\ 1 \in 1 .. Len(s)
  BY <1>1 DEF StackFine
<1>3. ASSUME NEW i \in 1 .. Len(t) PROVE FrameFine(t[i], M, R, K, Unwind(t, M))
  <2>1. FrameFine(t[i], L, R, K, Unwind(s, L))
    BY <1>2 DEF StackFine
  <2>2. M[t[i].unit] = IN_PATH
    BY <1>2, <2>1, Zenon DEF FrameFine, CallFrame
  <2>3. Unwind(s, L) \in BOOLEAN /\ Unwind(t, M) \in BOOLEAN
    BY Zenon DEF Unwind
  <2>4. t # <<>>
    BY <1>1, NonEmpty, Zenon
  <2>5. Unwind(s, L) \/ NewGood(L, M) => Unwind(t, M)
    BY <2>4, Zenon
  <2>6. t[i] \in CallFrame
    BY <1>2, Zenon
  <2> QED BY <2>1, <2>2, <2>3, <2>5, <2>6, FrameKept, ZenonT(30)
<1>4. \A i, j \in 1 .. Len(t) : t[i].unit = t[j].unit => i = j
  <2> SUFFICES ASSUME NEW i \in 1 .. Len(t), NEW j \in 1 .. Len(t), t[i].unit = t[j].unit PROVE i = j
    BY Zenon
  <2>1. i + 1 = j + 1
    BY <1>2 DEF StackFine
  <2> QED BY <2>1, <1>1
<1>5. \A u \in Units \ {} : M[u] = IN_PATH => \E i \in 1 .. Len(t) : t[i].unit = u
  <2> SUFFICES ASSUME NEW u \in Units, M[u] = IN_PATH PROVE \E i \in 1 .. Len(t) : t[i].unit = u
    BY Zenon
  <2>1. L[u] = IN_PATH /\ u # s[1].unit
    BY Zenon
  <2>2. PICK j \in 1 .. Len(s) : s[j].unit = u
    BY <2>1, Zenon DEF StackFine
  <2>3. j - 1 \in 1 .. Len(t) /\ t[j - 1] = s[j]
    BY <2>1, <2>2, <1>1
  <2> QED BY <2>2, <2>3, Zenon
<1>6. \A i \in 1 .. Len(t) - 1 : t[i + 1].at = t[i].unit
  <2> SUFFICES ASSUME NEW i \in 1 .. Len(t) - 1 PROVE t[i + 1].at = t[i].unit
    BY Zenon
  <2>1. i + 1 \in 1 .. Len(t) /\ i \in 1 .. Len(t) /\ i + 1 \in 1 .. Len(s) - 1
    BY <1>1
  <2> QED BY <2>1, <1>2 DEF StackFine
<1> QED BY <1>3, <1>4, <1>5, <1>6, Zenon DEF StackFine

\* A call begins for u, which the topmost one is looking at.
LEMMA StackPush ==
  ASSUME NEW L \in [Units -> Int], NEW R, NEW K, NEW u \in Units, u \notin K, L[u] = IN_PATH,
         NEW s \in Seq(CallFrame), StackFine(s, L, R, K, {u}),
         \A i \in 1 .. Len(s) : s[i].unit # u,
         s # <<>> => s[1].at = u,
         NEW f \in CallFrame, f.unit = u, f.todo = Ref(R, u), f.at = NoUnit,
         NEW t, t = <<f>> \o s
  PROVE  StackFine(t, L, R, K, {})
<1>1. /\ t \in Seq(CallFrame) /\ Len(t) = Len(s) + 1 /\ t[1] = f /\ Len(s) \in Nat
      /\ \A i \in 1 .. Len(s) : t[i + 1] = s[i]
      /\ \A i \in 2 .. Len(t) : t[i] = s[i - 1]
  BY PushFacts
<1>2. ~ Unwind(s, L) /\ ~ Unwind(t, L)
  BY <1>1 DEF Unwind, GOOD, IN_PATH
<1>3. ASSUME NEW i \in 1 .. Len(t) PROVE FrameFine(t[i], L, R, K, Unwind(t, L))
  <2>1. CASE i = 1
    <3>1. FrameFine(f, L, R, K, Unwind(t, L))
      BY Zenon DEF FrameFine
    <3> QED BY <1>1, <2>1, <3>1, Zenon
  <2>2. CASE i # 1
    <3>1. i - 1 \in 1 .. Len(s) /\ t[i] = s[i - 1]
      BY <1>1, <2>2
    <3>2. FrameFine(s[i - 1], L, R, K, Unwind(s, L))
      BY <3>1, Zenon DEF StackFine
    <3> QED BY <1>2, <3>1, <3>2, Zenon DEF FrameFine
  <2> QED BY <2>1, <2>2, Zenon
<1>4. ASSUME NEW i \in 1 .. Len(t), NEW j \in 1 .. Len(t), t[i].unit = t[j].unit PROVE i = j
  <2>1. CASE i = 1 \/ j = 1
    BY <1>1, <1>4, <2>1
  <2>2. CASE i # 1 /\ j # 1
    <3>1. /\ i - 1 \in 1 .. Len(s) /\ j - 1 \in 1 .. Len(s)
          /\ t[i] = s[i - 1] /\ t[j] = s[j - 1]
      BY <1>1, <2>2
    <3>2. \A k, l \in 1 .. Len(s) : s[k].unit = s[l].unit => k = l
      BY Zenon DEF StackFine
    <3>3. s[i - 1].unit = s[j - 1].unit
      BY <1>4, <3>1, Zenon
    <3>4. i - 1 = j - 1
      BY <3>1, <3>2, <3>3, Zenon
    <3> QED BY <3>4
  <2> QED BY <2>1, <2>2, Zenon
<1>5. ASSUME NEW v \in Units, L[v] = IN_PATH PROVE \E i \in 1 .. Len(t) : t[i].unit = v
  <2>1. CASE v = u
    BY <1>1, <2>1
  <2>2. CASE v # u
    <3>1. PICK j \in 1 .. Len(s) : s[j].unit = v
      BY <1>5, <2>2, Zenon DEF StackFine
    <3>2. j + 1 \in 1 .. Len(t) /\ t[j + 1] = s[j]
      BY <1>1
    <3> QED BY <3>1, <3>2, Zenon
  <2> QED BY <2>1, <2>2, Zenon
<1>6. ASSUME NEW i \in 1 .. Len(t) - 1 PROVE t[i + 1].at = t[i].unit
  <2>1. i \in 1 .. Len(s) /\ t[i + 1] = s[i] /\ s # <<>>
    BY <1>1, NonEmpty
  <2>2. CASE i = 1
    BY <1>1, <2>1, <2>2, Zenon
  <2>3. CASE i # 1
    <3>1. i - 1 \in 1 .. Len(s) - 1 /\ t[i] = s[i - 1] /\ (i - 1) + 1 = i
      BY <1>1, <2>1, <2>3
    <3>2. s[(i - 1) + 1].at = s[i - 1].unit
      BY <3>1, Zenon DEF StackFine
    <3> QED BY <2>1, <3>1, <3>2, Zenon
  <2> QED BY <2>2, <2>3, Zenon
<1> QED BY <1>3, <1>4, <1>5, <1>6, Zenon DEF StackFine

\* The topmost call goes on to the unit o, which gets a label if it had none.
LEMMA StackVisit ==
  ASSUME NEW L \in [Units -> Int], NEW M \in [Units -> Int], NEW R, NEW K, NEW X,
         NEW s \in Seq(CallFrame), s # <<>>, StackFine(s, L, R, K, {}), s[1].at = NoUnit,
         NEW o \in s[1].todo,
         NEW f \in CallFrame, f.unit = s[1].unit, f.at = o, f.todo = s[1].todo \ {o}, f.is_bad = s[1].is_bad,
         NEW t, t = <<f>> \o Tail(s),
         Moves(L, M), M[o] \in 0 .. 3,
         \A v \in Units : L[v] = IN_PATH => M[v] = IN_PATH,
         \A v \in Units \ X : M[v] = IN_PATH => L[v] = IN_PATH,
         NewGood(L, M) => M[o] = GOOD
  PROVE  StackFine(t, M, R, K, X)
<1>1. s[1] \in CallFrame /\ Len(s) > 0
  BY TailFacts, Zenon
<1>2. o \in Units
  BY <1>1, Zenon DEF CallFrame
<1>3. t \in Seq(CallFrame) /\ t # <<>> /\ t[1] = f
  BY <1>2, ReplaceFacts
<1>4. ~ Unwind(s, L) /\ (NewGood(L, M) => Unwind(t, M))
  BY <1>2, <1>3, UnitsAssumption, Zenon DEF Unwind
<1>5. FrameFine(s[1], L, R, K, FALSE)
  <2>1. 1 \in 1 .. Len(s)
    BY <1>1
  <2>2. FrameFine(s[1], L, R, K, Unwind(s, L))
    BY <2>1, Zenon DEF StackFine
  <2> QED BY <1>4, <2>2, Zenon DEF FrameFine
<1>6. FrameFine(f, M, R, K, Unwind(t, M))
  <2>1. s[1].unit \in Units /\ \A v \in Ref(R, s[1].unit) : v \in Units
    BY <1>1, Zenon DEF CallFrame, Ref
  <2>2. f.unit \notin K /\ M[f.unit] = IN_PATH /\ f.todo \subseteq Ref(R, f.unit)
    BY <1>2, <1>5, <2>1, Zenon DEF FrameFine
  <2>3. f.at # NoUnit => f.at \in Ref(R, f.unit) /\ M[f.at] \in 0 .. 3
    BY <1>2, <1>5, Zenon DEF FrameFine
  <2>4. ASSUME NEW v \in Ref(R, f.unit), v \notin f.todo, v # f.at
        PROVE  M[v] \in 0 .. 3 /\ (f.is_bad => M[v] = BAD) /\ (M[v] = GOOD => Unwind(t, M))
    <3>1. v \in Units /\ v \notin s[1].todo /\ v # s[1].at /\ v \in Ref(R, s[1].unit)
      BY <1>2, <2>1, <2>4, UnitsAssumption, Zenon
    <3>2. L[v] \in 0 .. 3 /\ (s[1].is_bad => L[v] = BAD) /\ L[v] # GOOD
      BY <1>5, <3>1, Zenon DEF FrameFine
    <3> QED BY <1>2, <1>4, <3>1, <3>2, Zenon DEF Moves, NewGood
  <2> QED BY <2>2, <2>3, <2>4, Zenon DEF FrameFine
<1> QED BY <1>2, <1>3, <1>4, <1>6, StackReplace, Zenon

\* The topmost call has looked at a unit that is not known to be needed.
LEMMA StackLook ==
  ASSUME NEW L \in [Units -> Int], NEW R, NEW K,
         NEW s \in Seq(CallFrame), s # <<>>, StackFine(s, L, R, K, {}), s[1].at # NoUnit,
         L[s[1].at] # GOOD,
         NEW f \in CallFrame, f.unit = s[1].unit, f.at = NoUnit, f.todo = s[1].todo,
         f.is_bad => s[1].is_bad /\ L[s[1].at] = BAD,
         NEW t, t = <<f>> \o Tail(s)
  PROVE  StackFine(t, L, R, K, {})
<1>1. s[1] \in CallFrame /\ 1 \in 1 .. Len(s)
  BY TailFacts
<1>2. t \in Seq(CallFrame) /\ t # <<>> /\ t[1] = f
  BY ReplaceFacts
<1>3. ~ Unwind(s, L) /\ ~ Unwind(t, L)
  BY <1>2, Zenon DEF Unwind
<1>4. FrameFine(s[1], L, R, K, FALSE)
  BY <1>1, <1>3, Zenon DEF StackFine, FrameFine
<1>5. FrameFine(f, L, R, K, Unwind(t, L))
  BY <1>3, <1>4, Zenon DEF FrameFine
<1>6. Moves(L, L) /\ ~ NewGood(L, L)
  BY Zenon DEF Moves, NewGood
<1> QED BY <1>3, <1>5, <1>6, StackReplace, Zenon

-----------------------------------------------------------------------------
(* The labels in a run of the collector.                                   *)

\* gc_marker leaves room for the labels, so that they do not wrap around.
LEMMA NoWrap ==
  ASSUME marker \in 1 .. Modulus - 5, NEW o \in 0 .. 3
  PROVE  wrap(marker + o) = marker + o /\ marker + o \in 0 .. Modulus - 1
BY MarkerAssumption DEF wrap

\* A label is the distance of the two markers.
LEMMA LabelMeaning ==
  ASSUME TypeOK, marker \in 1 .. Modulus - 5, NEW u \in Units, NEW o \in 0 .. 3
  PROVE  Label(u, o) <=> labels[u] = o
<1>1. mark[u] \in Int /\ marker \in Int
  BY MarkerAssumption DEF TypeOK
<1>2. Label(u, o) <=> mark[u] = marker + o
  BY NoWrap, Zenon DEF Label
<1>3. labels[u] = mark[u] - marker
  BY Zenon DEF labels
<1> QED BY <1>1, <1>2, <1>3

\* Labels are numbers.
LEMMA LabelsType ==
  ASSUME TypeOK PROVE labels \in [Units -> Int]
BY MarkerAssumption DEF TypeOK, labels

\* What a step does to the labels: it only gives units ones of this run.
Relabels == /\ UNCHANGED marker
            /\ mark' \in [Units -> 0 .. Modulus - 1]
            /\ \A v \in Units : mark'[v] = mark[v] \/ mark'[v] \in marker .. marker + 3

\* They stay so.
LEMMA RelabelsType == ASSUME TypeOK, Relabels PROVE labels' \in [Units -> Int]
<1>1. mark' \in [Units -> 0 .. Modulus - 1] /\ marker' \in Int
  BY MarkerAssumption DEF TypeOK, Relabels
<1> QED BY <1>1 DEF labels

\* One unit gets a label.
LEMMA SetLabelFacts ==
  ASSUME TypeOK, marker \in 1 .. Modulus - 5, UNCHANGED marker, NEW u \in Units, NEW o \in 0 .. 3, SetLabel(u, o)
  PROVE  Relabels /\ labels' = [labels EXCEPT ![u] = o]
<1>1. mark' = [mark EXCEPT ![u] = marker + o] /\ marker + o \in 0 .. Modulus - 1
  BY NoWrap, Zenon DEF SetLabel
<1>2. mark \in [Units -> 0 .. Modulus - 1] /\ marker \in Int
  BY MarkerAssumption DEF TypeOK
<1>3. Relabels
  BY <1>1, <1>2 DEF Relabels
<1>4. ASSUME NEW v \in Units PROVE labels'[v] = [labels EXCEPT ![u] = o][v]
  <2>1. labels'[v] = mark'[v] - marker /\ labels[v] = mark[v] - marker /\ labels[u] = mark[u] - marker
    BY Zenon DEF labels
  <2>2. CASE v = u
    BY <1>1, <1>2, <2>1, <2>2 DEF labels
  <2>3. CASE v # u
    BY <1>1, <1>2, <2>1, <2>3, Zenon DEF labels
  <2> QED BY <2>2, <2>3, Zenon
<1> QED BY <1>3, <1>4, Zenon DEF labels

\* unit_gc_mark_good(u).
LEMMA MarkGoodFacts ==
  ASSUME TypeOK, marker \in 1 .. Modulus - 5, UNCHANGED marker, NEW u \in Units, unit_gc_mark_good(u)
  PROVE  /\ Relabels
         /\ labels' = [v \in Units |-> IF v \in GoodSet(labels, refs, u) THEN GOOD ELSE labels[v]]
<1>1. refs \subseteq Units \X Units /\ mark \in [Units -> 0 .. Modulus - 1] /\ marker \in Int
  BY MarkerAssumption DEF TypeOK
<1>2. {e \in refs : Label(e[2], UNSURE)} = {e \in refs : labels[e[2]] = UNSURE}
  <2>1. ASSUME NEW e \in refs PROVE Label(e[2], UNSURE) <=> labels[e[2]] = UNSURE
    <3>1. e[2] \in Units
      BY <1>1, Zenon
    <3> QED BY <3>1, LabelMeaning DEF UNSURE
  <2> QED BY <2>1, Zenon
<1>3. Referenced(u) = GoodSet(labels, refs, u)
  BY <1>2, Zenon DEF Referenced, GoodSet
<1>4. wrap(marker + GOOD) = marker + 2 /\ marker + 2 \in 0 .. Modulus - 1
  BY NoWrap DEF GOOD
<1>5. mark' = [v \in Units |-> IF v \in GoodSet(labels, refs, u) THEN marker + 2 ELSE mark[v]]
  BY <1>3, <1>4, Zenon DEF unit_gc_mark_good
<1>6. Relabels
  BY <1>1, <1>4, <1>5 DEF Relabels
<1>7. ASSUME NEW v \in Units
      PROVE  mark'[v] - marker = IF v \in GoodSet(labels, refs, u) THEN GOOD ELSE labels[v]
  BY <1>1, <1>5 DEF GOOD, labels
<1>8. labels' = [v \in Units |-> mark'[v] - marker]
  BY Zenon DEF labels
<1> QED BY <1>6, <1>7, <1>8, Zenon

\* Labels of this run are none of a run to come.
LEMMA RelabelsFresh == ASSUME TypeOK, Fresh, Relabels, UNCHANGED runs PROVE Fresh'
<1> SUFFICES ASSUME NEW u \in Units
             PROVE  \/ mark'[u] = 0
                    \/ mark'[u] >= marker - 4 * runs /\ mark'[u] <= marker + 3
                    \/ mark'[u] >= marker + 4 * (MaxRuns - runs) + 4
  BY Zenon DEF Fresh, Relabels
<1>1. runs \in Nat /\ marker \in Int /\ mark'[u] \in Int
  BY MarkerAssumption DEF TypeOK, Relabels
<1>2. CASE mark'[u] = mark[u]
  BY <1>2, Zenon DEF Fresh
<1>3. CASE mark'[u] \in marker .. marker + 3
  BY <1>1, <1>3
<1> QED BY <1>2, <1>3, Zenon DEF Relabels

\* The next value of gc_marker.
LEMMA NextMarkerFacts ==
  ASSUME TypeOK
  PROVE  \/ NextMarker = marker + 4 /\ marker + 4 <= Modulus - 5
         \/ NextMarker \in 1 .. 3 /\ marker >= Modulus - 8
<1>1. marker \in 0 .. Modulus - 1 /\ Modulus \in Nat /\ Modulus >= 12
  BY MarkerAssumption DEF TypeOK
<1>2. CASE marker + 8 < Modulus
  BY <1>1, <1>2 DEF NextMarker, wrap, _GC_OFFSET_MAX
<1>3. CASE marker + 8 >= Modulus /\ marker + 4 < Modulus
  BY <1>1, <1>3 DEF NextMarker, wrap, _GC_OFFSET_MAX
<1>4. CASE marker + 4 >= Modulus
  BY <1>1, <1>4 DEF NextMarker, wrap, _GC_OFFSET_MAX
<1> QED BY <1>1, <1>2, <1>3, <1>4

\* A run begins with no unit labelled.
LEMMA NewRun ==
  ASSUME TypeOK, Fresh, runs < MaxRuns, runs' = runs + 1, marker' = NextMarker, UNCHANGED mark
  PROVE  /\ Fresh' /\ marker' \in 1 .. Modulus - 5
         /\ \A u \in Units : labels'[u] \notin 0 .. 3
<1>1. /\ Modulus \in Nat /\ MaxRuns \in Nat /\ runs \in Nat /\ marker \in 0 .. Modulus - 1
      /\ 4 * MaxRuns + 12 <= Modulus
  BY MarkerAssumption DEF TypeOK
<1>2. \/ marker' = marker + 4 /\ marker + 4 <= Modulus - 5
      \/ marker' \in 1 .. 3 /\ marker >= Modulus - 8
  BY NextMarkerFacts, Zenon
<1>3. marker' \in 1 .. Modulus - 5
  BY <1>1, <1>2
<1>4. ASSUME NEW u \in Units
      PROVE  /\ \/ mark[u] = 0
                \/ mark[u] >= marker' - 4 * (runs + 1) /\ mark[u] <= marker' + 3
                \/ mark[u] >= marker' + 4 * (MaxRuns - (runs + 1)) + 4
             /\ mark[u] - marker' \notin 0 .. 3
  <2>1. mark[u] \in 0 .. Modulus - 1
    BY Zenon DEF TypeOK
  <2>2. \/ mark[u] = 0
        \/ mark[u] >= marker - 4 * runs /\ mark[u] <= marker + 3
        \/ mark[u] >= marker + 4 * (MaxRuns - runs) + 4
    BY Zenon DEF Fresh
  <2>3. CASE marker' = marker + 4 /\ marker + 4 <= Modulus - 5
    BY <1>1, <2>1, <2>2, <2>3
  <2>4. CASE marker' \in 1 .. 3 /\ marker >= Modulus - 8
    BY <1>1, <2>1, <2>2, <2>4
  <2> QED BY <1>2, <2>3, <2>4, Zenon
<1>5. Fresh'
  BY <1>4, Zenon DEF Fresh
<1>6. \A u \in Units : labels'[u] = mark[u] - marker'
  BY Zenon DEF labels
<1> QED BY <1>3, <1>4, <1>5, <1>6, Zenon

-----------------------------------------------------------------------------
(* The collector at work.                                                  *)

\* While the dependencies, jobs and so on stay, so do the units that are kept.
LEMMA GraphKept == ASSUME UNCHANGED graph PROVE UNCHANGED <<units, keep, jobs, refs, handlers, Kept>>
<1>1. UNCHANGED <<units, keep, jobs, refs, handlers>>
  BY Zenon DEF graph
<1>2. Kept' = Kept
  BY <1>1, Zenon DEF Kept, unit_may_gc, unit_success_failure_handler_has_jobs
<1> QED BY <1>1, <1>2, Zenon

\* The lemmas about labels are about the state of the collector.
LEMMA InvSetting == ASSUME TypeOK PROVE Setting(labels, refs, Kept, NeededUnits)
BY LabelsType, Zenon DEF TypeOK, Setting, NeededUnits

\* What concatenation comes to.
LEMMA ConcatFacts ==
  ASSUME NEW F, NEW p \in Seq(F), NEW q \in Seq(F)
  PROVE  /\ p \o q \in Seq(F) /\ Len(p \o q) = Len(p) + Len(q) /\ Len(p) \in Nat /\ Len(q) \in Nat
         /\ \A i \in 1 .. Len(p) : (p \o q)[i] = p[i]
         /\ \A i \in 1 .. Len(q) : (p \o q)[Len(p) + i] = q[i]
         /\ \A i \in Len(p) + 1 .. Len(p) + Len(q) : (p \o q)[i] = q[i - Len(p)]
OBVIOUS

\* A function on an initial segment is a sequence.
LEMMA ListFacts == ASSUME NEW F, NEW m \in Nat, NEW f \in [1 .. m -> F] PROVE f \in Seq(F) /\ Len(f) = m
OBVIOUS

\* What joins the queue.
LEMMA QueueFacts ==
  ASSUME TypeOK, NEW S \in SUBSET Units, unit_add_to_gc_queue(S)
  PROVE  /\ gc_queue' \in Seq(Units)
         /\ Waiting' = Waiting \cup {u \in S : u # popped /\ u \notin Waiting /\ u \notin cleanup /\ u \notin Kept'}
<1> DEFINE new == {u \in S : ~ in_gc_queue(u) /\ u \notin cleanup /\ unit_may_gc(u)'}
<1>1. new = {u \in S : u # popped /\ u \notin Waiting /\ u \notin cleanup /\ u \notin Kept'}
  <2>1. Range(gc_queue) = Waiting
    <3>1. gc_queue \in Seq(Units)
      BY Zenon DEF TypeOK
    <3> QED BY <3>1 DEF Range, Waiting
  <2> QED BY <2>1, Zenon DEF in_gc_queue, Kept
<1>2. PICK order \in Surjection(1 .. Cardinality(new), new) : gc_queue' = order \o gc_queue
  BY Zenon DEF unit_add_to_gc_queue
<1>3. Cardinality(new) \in Nat
  <2>1. IsFiniteSet(new)
    BY UnitsAssumption, FS_Subset, Zenon
  <2> QED BY <2>1, FS_CardinalityType, Zenon
<1>4. new \subseteq Units
  BY Zenon
<1> HIDE DEF new
<1> DEFINE n == Len(order)
<1>5. /\ order \in [1 .. Cardinality(new) -> new]
      /\ \A u \in new : \E i \in 1 .. Cardinality(new) : order[i] = u
  BY <1>2, Zenon DEF Surjection
<1>6. order \in Seq(Units) /\ Cardinality(new) = n /\ gc_queue \in Seq(Units)
  <2>1. order \in [1 .. Cardinality(new) -> Units]
    BY <1>4, <1>5, Zenon
  <2> QED BY <1>3, <2>1, ListFacts, Zenon DEF TypeOK
<1>7. order \in [1 .. n -> new] /\ \A u \in new : \E i \in 1 .. n : order[i] = u
  BY <1>5, <1>6, Zenon
<1>8. /\ gc_queue' \in Seq(Units) /\ Len(gc_queue') = n + Len(gc_queue) /\ n \in Nat /\ Len(gc_queue) \in Nat
      /\ \A i \in 1 .. n : gc_queue'[i] = order[i]
      /\ \A i \in 1 .. Len(gc_queue) : gc_queue'[n + i] = gc_queue[i]
      /\ \A i \in n + 1 .. n + Len(gc_queue) : gc_queue'[i] = gc_queue[i - n]
  BY <1>2, <1>6, ConcatFacts
<1> HIDE DEF n
<1>9. Waiting' \subseteq Waiting \cup new
  <2> SUFFICES ASSUME NEW i \in 1 .. Len(gc_queue') PROVE gc_queue'[i] \in Waiting \cup new
    BY Zenon DEF Waiting
  <2>1. CASE i \in 1 .. n
    BY <1>7, <1>8, <2>1, Zenon
  <2>2. CASE i \notin 1 .. n
    <3>1. i - n \in 1 .. Len(gc_queue) /\ gc_queue'[i] = gc_queue[i - n]
      BY <1>8, <2>2
    <3> QED BY <3>1, Zenon DEF Waiting
  <2> QED BY <2>1, <2>2, Zenon
<1>10. new \subseteq Waiting'
  <2> SUFFICES ASSUME NEW u \in new PROVE u \in Waiting'
    BY Zenon
  <2>1. PICK i \in 1 .. n : order[i] = u
    BY <1>7, Zenon
  <2>2. i \in 1 .. Len(gc_queue') /\ gc_queue'[i] = u
    BY <1>8, <2>1
  <2> QED BY <2>2, Zenon DEF Waiting
<1>11. Waiting \subseteq Waiting'
  <2> SUFFICES ASSUME NEW i \in 1 .. Len(gc_queue) PROVE gc_queue[i] \in Waiting'
    BY Zenon DEF Waiting
  <2>1. n + i \in 1 .. Len(gc_queue') /\ gc_queue'[n + i] = gc_queue[i]
    BY <1>8
  <2> QED BY <2>1, Zenon DEF Waiting
<1> QED BY <1>1, <1>8, <1>9, <1>10, <1>11, ZenonT(30)

\* What a step of the collector has to see to.
LEMMA GcStep ==
  ASSUME Inv, phase = "gc", UNCHANGED <<graph, units, Kept, refs, phase, runs>>, Relabels,
         overlooked' \subseteq overlooked,
         gc_queue' \in Seq(Units), Waiting' \subseteq units, cleanup' \subseteq units \ Kept,
         popped' \in units \cup {NoUnit}, stack' \in Seq(CallFrame), popped' = NoUnit => stack' = <<>>,
         Swept', cleanup' \cap NeededUnits = {}, Pending \subseteq NeededUnits \cup Pending'
  PROVE  Inv'
<1>1. TypeOK'
  BY GraphKept, Zenon DEF Inv, TypeOK, Relabels
<1>2. PhaseOK'
  <2>1. phase' = "gc" /\ marker' = marker /\ marker \in 1 .. Modulus - 5
    BY Zenon DEF Inv, PhaseOK, Relabels
  <2> QED BY <2>1, Zenon DEF PhaseOK
<1>3. Fresh'
  BY RelabelsFresh, Zenon DEF Inv
<1>4. NeededUnits' = NeededUnits
  BY Zenon DEF NeededUnits
<1>5. Covered'
  <2> DEFINE C == Reachable(Kept \cup Pending', refs)
  <2>1. Kept \cup Pending' \in SUBSET Units /\ refs \in SUBSET (Units \X Units) /\ Kept \cup Pending \in SUBSET Units
    BY <1>1, ZenonT(30) DEF Inv, TypeOK, Pending
  <2>2. Kept \cup Pending' \subseteq C /\ C \in SUBSET Units /\ Closed(C, refs)
    BY <2>1, ReachableStart, ReachableUnits, ReachableClosed, Zenon DEF Closed
  <2>3. NeededUnits \subseteq C
    BY <2>1, ReachableMono, Zenon DEF NeededUnits
  <2>4. Kept \cup Pending \subseteq C
    BY <2>2, <2>3, Zenon
  <2>5. Reachable(Kept \cup Pending, refs) \subseteq C
    BY <2>2, <2>4, ReachableLeast, Zenon
  <2> QED BY <2>5, Zenon DEF Covered, Inv
<1> QED BY <1>1, <1>2, <1>3, <1>4, <1>5, ZenonT(30) DEF Inv, NoUsedCollected

\* unit_gc_sweep() on a unit gives it a label, and begins a loop if it is IN_PATH.
LEMMA SweepFacts ==
  ASSUME Inv, phase = "gc", UNCHANGED <<graph, units, Kept, refs, marker>>, NEW u \in units, NEW s, unit_gc_sweep(u, s)
  PROVE  /\ Relabels
         /\ LabelsFine(labels', refs, Kept, NeededUnits)
         /\ Moves(labels, labels') /\ labels'[u] \in 0 .. 3
         /\ \A v \in Units : labels[v] = IN_PATH => labels'[v] = IN_PATH
         /\ NewGood(labels, labels') => labels'[u] = GOOD
         /\ \/ stack' = s /\ \A v \in Units : labels'[v] = IN_PATH => labels[v] = IN_PATH
            \/ /\ stack' = <<Frame(u)>> \o s /\ u \notin Kept /\ labels'[u] = IN_PATH /\ labels[u] # IN_PATH
               /\ \A v \in Units \ {u} : labels'[v] = IN_PATH => labels[v] = IN_PATH
<1>1. /\ TypeOK /\ marker \in 1 .. Modulus - 5 /\ LabelsFine(labels, refs, Kept, NeededUnits)
      /\ u \in Units /\ Kept \in SUBSET Units
  BY Zenon DEF Inv, TypeOK, PhaseOK, Swept
<1>2. Setting(labels, refs, Kept, NeededUnits) /\ labels \in [Units -> Int]
  BY <1>1, InvSetting, LabelsType, ZenonT(30)
<1> DEFINE seen == \E o \in {GOOD, BAD, UNSURE, IN_PATH} : Label(u, o)
<1>3. seen <=> labels[u] \in 0 .. 3
  <2>1. /\ Label(u, 0) <=> labels[u] = 0
        /\ Label(u, 1) <=> labels[u] = 1
        /\ Label(u, 2) <=> labels[u] = 2
        /\ Label(u, 3) <=> labels[u] = 3
    BY <1>1, LabelMeaning
  <2>2. seen <=> Label(u, 0) \/ Label(u, 1) \/ Label(u, 2) \/ Label(u, 3)
    BY Zenon DEF GOOD, BAD, UNSURE, IN_PATH
  <2> QED BY <1>1, <1>2, <2>1, <2>2, SMTT(30)
<1>4. CASE seen
  <2>1. stack' = s /\ UNCHANGED mark
    BY <1>4, Zenon DEF unit_gc_sweep
  <2>2. labels' = labels
    BY <2>1, Zenon DEF labels
  <2>3. Relabels
    BY <1>1, <2>1, Zenon DEF Relabels, TypeOK
  <2> QED BY <1>1, <1>3, <1>4, <2>1, <2>2, <2>3, ZenonT(30) DEF Moves, NewGood
<1>5. CASE ~ seen /\ u \in cleanup
  <2>1. stack' = s /\ SetLabel(u, BAD)
    BY <1>5, Zenon DEF unit_gc_sweep
  <2>2. Relabels /\ labels' = [labels EXCEPT ![u] = BAD]
    BY <1>1, <2>1, SetLabelFacts DEF BAD
  <2>3. u \notin NeededUnits
    BY <1>5, Zenon DEF Inv, NoUsedCollected
  <2>4. LabelsFine(labels', refs, Kept, NeededUnits)
    BY <1>1, <1>2, <2>2, <2>3, BadLabel, ZenonT(30)
  <2> QED BY <1>1, <1>2, <1>3, <1>5, <2>1, <2>2, <2>4, SMTT(30) DEF Moves, NewGood, BAD, GOOD, IN_PATH
<1>6. CASE ~ seen /\ u \notin cleanup /\ u \in Kept
  <2> DEFINE G == GoodSet(labels, refs, u)
  <2>1. stack' = s /\ unit_gc_mark_good(u)
    BY <1>1, <1>6, Zenon DEF unit_gc_sweep, Kept
  <2>2. Relabels /\ labels' = [v \in Units |-> IF v \in G THEN GOOD ELSE labels[v]]
    BY <1>1, <2>1, MarkGoodFacts, Zenon
  <2>3. u \in G /\ \A v \in G : v = u \/ labels[v] = UNSURE
    BY <1>1, <1>2, GoodUnits, Zenon
  <2>4. u \in NeededUnits
    BY <1>1, <1>6, ReachableStart, Zenon DEF NeededUnits
  <2> HIDE DEF G
  <2>5. LabelsFine(labels', refs, Kept, NeededUnits)
    BY <1>1, <1>2, <2>2, <2>4, GoodLabels, ZenonT(30) DEF G
  <2>6. /\ Moves(labels, labels') /\ labels'[u] = GOOD
        /\ \A v \in Units : labels'[v] = IN_PATH <=> labels[v] = IN_PATH
    BY <1>1, <1>2, <1>3, <1>6, <2>2, <2>3, SMTT(30) DEF Moves, GOOD, BAD, UNSURE, IN_PATH
  <2> QED BY <2>1, <2>2, <2>5, <2>6 DEF GOOD
<1>7. CASE ~ seen /\ u \notin cleanup /\ u \notin Kept
  <2>1. stack' = <<Frame(u)>> \o s /\ SetLabel(u, IN_PATH)
    BY <1>1, <1>7, Zenon DEF unit_gc_sweep, Kept
  <2>2. Relabels /\ labels' = [labels EXCEPT ![u] = IN_PATH]
    BY <1>1, <2>1, SetLabelFacts DEF IN_PATH
  <2>3. LabelsFine(labels', refs, Kept, NeededUnits)
    BY <1>1, <1>2, <2>2, PathLabel, ZenonT(30)
  <2> QED BY <1>1, <1>2, <1>3, <1>7, <2>1, <2>2, <2>3, SMTT(30) DEF Moves, NewGood, BAD, GOOD, IN_PATH
<1> QED BY <1>4, <1>5, <1>6, <1>7, ZenonT(30)

\* The frame of a call that begins.
LEMMA FrameFacts ==
  ASSUME TypeOK, NEW u \in units
  PROVE  /\ Frame(u) \in CallFrame /\ Frame(u).unit = u /\ Frame(u).at = NoUnit
         /\ Frame(u).todo = Ref(refs, u)
<1>1. Referrers(u) = Ref(refs, u) /\ Referrers(u) \subseteq Units /\ u \in Units
  BY Zenon DEF Referrers, Ref, TypeOK
<1> QED BY <1>1, Zenon DEF Frame, CallFrame

\* What the search reaches once unit_gc_sweep() was called for u, which the topmost of
\* the calls s is looking at.
LEMMA SweptOn ==
  ASSUME Inv, phase = "gc", UNCHANGED <<graph, units, Kept, refs, marker, phase>>, NEW u \in units,
         NEW s \in Seq(CallFrame), unit_gc_sweep(u, s),
         \A X \in SUBSET Units : (\A v \in Units \ X : labels'[v] = IN_PATH => labels[v] = IN_PATH)
                                 => StackFine(s, labels', refs, Kept, X),
         \A i \in 1 .. Len(s) : s[i].unit \in units /\ labels[s[i].unit] = IN_PATH,
         s # <<>> => s[1].at = u
  PROVE  /\ Relabels /\ stack' \in Seq(CallFrame)
         /\ StackFine(stack', labels', refs, Kept, {}) /\ LabelsFine(labels', refs, Kept, NeededUnits)
         /\ \A i \in 1 .. Len(stack') : stack'[i].unit \in units
<1>1. TypeOK /\ u \in Units /\ labels' \in [Units -> Int]
  <2>1. TypeOK /\ u \in Units /\ Relabels
    BY SweepFacts, Zenon DEF Inv, TypeOK
  <2> QED BY <2>1, RelabelsType, Zenon
<1>2. Relabels /\ LabelsFine(labels', refs, Kept, NeededUnits)
  BY SweepFacts, Zenon
<1>3. CASE stack' = s /\ \A v \in Units : labels'[v] = IN_PATH => labels[v] = IN_PATH
  <2>1. StackFine(s, labels', refs, Kept, {})
    BY <1>3, Zenon
  <2> QED BY <1>2, <1>3, <2>1, Zenon
<1>4. CASE /\ stack' = <<Frame(u)>> \o s /\ u \notin Kept /\ labels'[u] = IN_PATH /\ labels[u] # IN_PATH
           /\ \A v \in Units \ {u} : labels'[v] = IN_PATH => labels[v] = IN_PATH
  <2>1. StackFine(s, labels', refs, Kept, {u})
    BY <1>1, <1>4, Zenon
  <2>2. /\ Frame(u) \in CallFrame /\ Frame(u).unit = u /\ Frame(u).at = NoUnit
        /\ Frame(u).todo = Ref(refs, u)
    BY <1>1, FrameFacts, Zenon
  <2>3. \A i \in 1 .. Len(s) : s[i].unit # u
    BY <1>4, Zenon
  <2>4. StackFine(stack', labels', refs, Kept, {})
    BY <1>1, <1>4, <2>1, <2>2, <2>3, StackPush, ZenonT(30)
  <2>5. /\ stack' \in Seq(CallFrame) /\ Len(stack') = Len(s) + 1 /\ stack'[1] = Frame(u) /\ Len(s) \in Nat
        /\ \A i \in 2 .. Len(stack') : stack'[i] = s[i - 1]
    BY <1>4, <2>2, PushFacts
  <2>6. ASSUME NEW i \in 1 .. Len(stack') PROVE stack'[i].unit \in units
    <3>1. CASE i = 1
      BY <2>2, <2>5, <3>1, ZenonT(30)
    <3>2. CASE i # 1
      BY <2>5, <3>2
    <3> QED BY <3>1, <3>2, Zenon
  <2> QED BY <1>2, <2>4, <2>5, <2>6, ZenonT(30)
<1> QED BY <1>3, <1>4, SweepFacts, Zenon

\* manager_dispatch_gc_unit_queue() takes a unit from the queue and sweeps it.
LEMMA PopInv == ASSUME Inv, Pop PROVE Inv'
<1>1. /\ phase = "gc" /\ popped = NoUnit /\ gc_queue # <<>> /\ stack = <<>> /\ TypeOK
      /\ UNCHANGED <<graph, units, Kept, refs, marker, phase, runs, cleanup>>
      /\ popped' = Head(gc_queue) /\ gc_queue' = Tail(gc_queue) /\ overlooked' = overlooked \ {popped'}
  BY GraphKept, Zenon DEF Inv, PhaseOK, Pop
<1>2. /\ gc_queue' \in Seq(Units) /\ Waiting = {popped'} \cup Waiting' /\ popped' \in units
  <2>1. gc_queue \in Seq(Units) /\ Waiting \subseteq units
    BY <1>1, Zenon DEF TypeOK
  <2>2. /\ Len(gc_queue) > 0 /\ popped' = gc_queue[1] /\ gc_queue' \in Seq(Units)
        /\ Len(gc_queue') = Len(gc_queue) - 1
        /\ \A i \in 1 .. Len(gc_queue) - 1 : gc_queue'[i] = gc_queue[i + 1]
    BY <1>1, <2>1, TailFacts, ZenonT(30)
  <2>3. popped' \in Waiting
    BY <2>2 DEF Waiting
  <2>4. Waiting' \subseteq Waiting
    BY <2>2 DEF Waiting
  <2>5. Waiting \subseteq {popped'} \cup Waiting'
    <3> SUFFICES ASSUME NEW i \in 1 .. Len(gc_queue), i # 1 PROVE gc_queue[i] \in Waiting'
      BY <2>2, Zenon DEF Waiting
    <3>1. i - 1 \in 1 .. Len(gc_queue') /\ gc_queue'[i - 1] = gc_queue[i]
      BY <2>2
    <3> QED BY <3>1, Zenon DEF Waiting
  <2> QED BY <2>1, <2>2, <2>3, <2>4, <2>5, ZenonT(30)
<1>3. unit_gc_sweep(popped', <<>>)
  BY Zenon DEF Pop
<1>4. /\ Relabels /\ stack' \in Seq(CallFrame)
      /\ StackFine(stack', labels', refs, Kept, {}) /\ LabelsFine(labels', refs, Kept, NeededUnits)
      /\ \A i \in 1 .. Len(stack') : stack'[i].unit \in units
  <2>1. <<>> \in Seq(CallFrame) /\ Len(<<>>) = 0
    OBVIOUS
  <2>2. ASSUME NEW X \in SUBSET Units, \A v \in Units \ X : labels'[v] = IN_PATH => labels[v] = IN_PATH
        PROVE  StackFine(<<>>, labels', refs, Kept, X)
    <3>1. \A v \in Units : labels[v] # IN_PATH
      BY <1>1, <2>1 DEF Inv, Swept, StackFine
    <3> QED BY <2>1, <2>2, <3>1, SMTT(30) DEF StackFine
  <2>3. \A i \in 1 .. Len(<<>>) : <<>>[i].unit \in units /\ labels[<<>>[i].unit] = IN_PATH
    BY <2>1
  <2>4. \A X \in SUBSET Units : (\A v \in Units \ X : labels'[v] = IN_PATH => labels[v] = IN_PATH)
                                => StackFine(<<>>, labels', refs, Kept, X)
    BY <2>2, Zenon
  <2>5. UNCHANGED <<graph, units, Kept, refs, marker, phase>> /\ popped' \in units /\ phase = "gc"
    BY <1>1, <1>2, Zenon
  <2> QED BY <1>3, <2>1, <2>3, <2>4, <2>5, SweptOn, ZenonT(30)
<1>5. labels'[popped'] \in 0 .. 3
  BY <1>1, <1>2, <1>3, SweepFacts, ZenonT(30)
<1>6. Swept'
  <2>1. NeededUnits' = NeededUnits
    BY <1>1, Zenon DEF NeededUnits
  <2> QED BY <1>1, <1>4, <1>5, <2>1, ZenonT(30) DEF Swept
<1>7. /\ Waiting' \subseteq units /\ cleanup' \subseteq units \ Kept /\ popped' # NoUnit
      /\ cleanup' \cap NeededUnits = {}
  BY <1>1, <1>2, UnitsAssumption, Zenon DEF Inv, TypeOK, NoUsedCollected
<1>8. Pending \subseteq Pending'
  BY <1>1, <1>2, <1>7, ZenonT(30) DEF Pending
<1> QED BY <1>1, <1>2, <1>4, <1>6, <1>7, <1>8, GcStep, ZenonT(30)

\* A call is under way only in a run of the collector, for a unit that was popped.
LEMMA StackGc ==
  ASSUME Inv, stack # <<>>
  PROVE  /\ phase = "gc" /\ popped \in Units /\ popped # NoUnit /\ TypeOK /\ marker \in 1 .. Modulus - 5
         /\ stack \in Seq(CallFrame) /\ Head(stack) = stack[1] /\ stack[1] \in CallFrame /\ 1 \in 1 .. Len(stack)
         /\ StackFine(stack, labels, refs, Kept, {}) /\ LabelsFine(labels, refs, Kept, NeededUnits)
         /\ \A i \in 1 .. Len(stack) : stack[i].unit \in units
         /\ labels[popped] \in 0 .. 3
         /\ labels \in [Units -> Int] /\ Setting(labels, refs, Kept, NeededUnits)
<1>1. phase = "gc" /\ popped # NoUnit /\ TypeOK /\ marker \in 1 .. Modulus - 5
  BY Zenon DEF Inv, PhaseOK
<1>2. popped \in Units /\ stack \in Seq(CallFrame)
  BY <1>1, Zenon DEF TypeOK
<1> QED BY <1>1, <1>2, TailFacts, LabelsType, InvSetting, SMTT(30) DEF Inv, Swept

\* unit_gc_sweep() goes on to another referring unit.
LEMMA VisitInv == ASSUME Inv, Visit PROVE Inv'
<1>1. /\ stack # <<>> /\ Head(stack).at = NoUnit
      /\ UNCHANGED <<graph, units, Kept, refs, overlooked, gc_queue, cleanup, marker, popped, phase, runs>>
  BY GraphKept, Zenon DEF Visit
<1>2. /\ phase = "gc" /\ popped \in Units /\ popped # NoUnit /\ TypeOK
      /\ stack \in Seq(CallFrame) /\ Head(stack) = stack[1] /\ stack[1] \in CallFrame /\ 1 \in 1 .. Len(stack)
      /\ StackFine(stack, labels, refs, Kept, {})
      /\ \A i \in 1 .. Len(stack) : stack[i].unit \in units
      /\ labels[popped] \in 0 .. 3 /\ labels \in [Units -> Int]
  BY <1>1, StackGc, Zenon
<1>3. PICK o \in Head(stack).todo :
        unit_gc_sweep(o, <<[Head(stack) EXCEPT !.at = o, !.todo = @ \ {o}]>> \o Tail(stack))
  BY Zenon DEF Visit
<1> DEFINE f == [stack[1] EXCEPT !.at = o, !.todo = stack[1].todo \ {o}]
           t == <<f>> \o Tail(stack)
<1>4. unit_gc_sweep(o, t) /\ o \in stack[1].todo
  BY <1>2, <1>3, Zenon
<1>5. o \in units /\ o \in Units
  <2>1. FrameFine(stack[1], labels, refs, Kept, Unwind(stack, labels))
    BY <1>2, Zenon DEF StackFine
  <2>2. o \in Ref(refs, stack[1].unit)
    BY <1>4, <2>1, Zenon DEF FrameFine
  <2> QED BY <1>2, <2>2, Zenon DEF Ref, TypeOK
<1>6. /\ Relabels /\ Moves(labels, labels') /\ labels'[o] \in 0 .. 3
      /\ \A v \in Units : labels[v] = IN_PATH => labels'[v] = IN_PATH
      /\ NewGood(labels, labels') => labels'[o] = GOOD
  BY <1>1, <1>2, <1>4, <1>5, SweepFacts, ZenonT(30)
<1>7. labels' \in [Units -> Int]
  BY <1>2, <1>6, RelabelsType, Zenon
<1>8. /\ f \in CallFrame /\ f.unit = stack[1].unit /\ f.at = o /\ f.todo = stack[1].todo \ {o}
      /\ f.is_bad = stack[1].is_bad
  BY <1>2, <1>5, Zenon DEF CallFrame
<1>9. ASSUME NEW X \in SUBSET Units, \A v \in Units \ X : labels'[v] = IN_PATH => labels[v] = IN_PATH
      PROVE  StackFine(t, labels', refs, Kept, X)
  <2> HIDE DEF t
  <2>1. t = <<f>> \o Tail(stack)
    BY Zenon DEF t
  <2> HIDE DEF f
  <2>2. stack[1].at = NoUnit
    BY <1>1, <1>2, Zenon
  <2> QED BY <1>1, <1>2, <1>4, <1>6, <1>7, <1>8, <1>9, <2>1, <2>2, StackVisit, ZenonT(30)
<1>10. /\ t \in Seq(CallFrame) /\ t # <<>> /\ t[1] = f /\ Len(t) = Len(stack)
       /\ \A i \in 2 .. Len(stack) : t[i] = stack[i]
  BY <1>1, <1>2, <1>8, ReplaceFacts, SMTT(30)
<1> HIDE DEF t, f
<1>11. ASSUME NEW i \in 1 .. Len(t) PROVE t[i].unit \in units /\ labels[t[i].unit] = IN_PATH
  <2>1. t[i].unit = stack[i].unit /\ i \in 1 .. Len(stack)
    BY <1>2, <1>8, <1>10
  <2> QED BY <1>2, <2>1, ZenonT(30) DEF StackFine, FrameFine
<1>12. /\ Relabels /\ stack' \in Seq(CallFrame)
       /\ StackFine(stack', labels', refs, Kept, {}) /\ LabelsFine(labels', refs, Kept, NeededUnits)
       /\ \A i \in 1 .. Len(stack') : stack'[i].unit \in units
  BY <1>1, <1>2, <1>4, <1>5, <1>8, <1>9, <1>10, <1>11, SweptOn, ZenonT(30)
<1>13. Swept'
  <2>1. NeededUnits' = NeededUnits
    BY <1>1, Zenon DEF NeededUnits
  <2>2. labels'[popped] \in 0 .. 3
    BY <1>2, <1>6, Zenon DEF Moves
  <2> QED BY <1>1, <1>12, <2>1, <2>2, ZenonT(30) DEF Swept
<1>14. Waiting' = Waiting /\ Pending' = Pending
  BY <1>1, Zenon DEF Waiting, Pending
<1> QED BY <1>1, <1>2, <1>12, <1>13, <1>14, GcStep, ZenonT(30) DEF Inv, TypeOK, NoUsedCollected

\* It looks at the label that one got.
LEMMA LookInv == ASSUME Inv, Look PROVE Inv'
<1>1. /\ stack # <<>> /\ Head(stack).at # NoUnit
      /\ UNCHANGED <<graph, units, Kept, refs, overlooked, gc_queue, cleanup, marker, popped, phase, runs>>
  BY GraphKept, Zenon DEF Look
<1>2. /\ phase = "gc" /\ popped \in Units /\ popped # NoUnit /\ TypeOK /\ marker \in 1 .. Modulus - 5
      /\ stack \in Seq(CallFrame) /\ Head(stack) = stack[1] /\ stack[1] \in CallFrame /\ 1 \in 1 .. Len(stack)
      /\ StackFine(stack, labels, refs, Kept, {}) /\ LabelsFine(labels, refs, Kept, NeededUnits)
      /\ \A i \in 1 .. Len(stack) : stack[i].unit \in units
      /\ labels[popped] \in 0 .. 3
      /\ labels \in [Units -> Int] /\ Setting(labels, refs, Kept, NeededUnits)
  BY <1>1, StackGc, Zenon
<1> DEFINE u == stack[1].unit
           o == stack[1].at
<1>3. u \in Units /\ u \in units /\ o \in Units /\ o # NoUnit
  BY <1>1, <1>2, Zenon DEF CallFrame
<1>4. FrameFine(stack[1], labels, refs, Kept, Unwind(stack, labels))
  BY <1>2, Zenon DEF StackFine
<1>5. o \in Ref(refs, u) /\ labels[u] = IN_PATH
  BY <1>3, <1>4, ZenonT(30) DEF FrameFine
<1>6. /\ Label(o, GOOD) <=> labels[o] = GOOD
      /\ Label(o, BAD) <=> labels[o] = BAD
  BY <1>2, <1>3, LabelMeaning DEF GOOD, BAD
<1>7. Tail(stack) \in Seq(CallFrame) /\ Len(Tail(stack)) = Len(stack) - 1
      /\ \A i \in 1 .. Len(stack) - 1 : Tail(stack)[i] = stack[i + 1]
  BY <1>1, <1>2, TailFacts, Zenon
<1> SUFFICES /\ Relabels /\ Moves(labels, labels') /\ stack' \in Seq(CallFrame)
             /\ StackFine(stack', labels', refs, Kept, {}) /\ LabelsFine(labels', refs, Kept, NeededUnits)
             /\ \A i \in 1 .. Len(stack') : stack'[i].unit \in units
  <2>1. NeededUnits' = NeededUnits /\ Waiting' = Waiting /\ Pending' = Pending
    BY <1>1, Zenon DEF NeededUnits, Waiting, Pending
  <2>2. labels'[popped] \in 0 .. 3
    BY <1>2, Zenon DEF Moves
  <2>3. Swept'
    BY <1>1, <2>1, <2>2, Zenon DEF Swept
  <2> QED BY <1>1, <1>2, <2>1, <2>3, GcStep, ZenonT(30) DEF Inv, TypeOK, NoUsedCollected
<1>8. CASE Label(o, GOOD)
  <2> DEFINE G == GoodSet(labels, refs, u)
             t == Tail(stack)
  <2>1. unit_gc_mark_good(u) /\ stack' = t
    BY <1>2, <1>8, Zenon DEF Look
  <2>2. Relabels /\ labels' = [v \in Units |-> IF v \in G THEN GOOD ELSE labels[v]]
    BY <1>1, <1>2, <1>3, <2>1, MarkGoodFacts, ZenonT(30)
  <2>3. u \in G /\ \A v \in G : v = u \/ labels[v] = UNSURE
    BY <1>2, <1>3, GoodUnits
  <2>4. u \in NeededUnits
    <3>1. <<o, u>> \in refs /\ o \in NeededUnits
      BY <1>2, <1>3, <1>5, <1>6, <1>8, ZenonT(30) DEF Ref, LabelsFine
    <3>2. refs \in SUBSET (Units \X Units) /\ <<o, u>>[1] = o /\ <<o, u>>[2] = u
      BY <1>2, Zenon DEF TypeOK
    <3> QED BY <3>1, <3>2, ReachableClosed, ZenonT(30) DEF NeededUnits
  <2> HIDE DEF G, t, u, o
  <2>5. LabelsFine(labels', refs, Kept, NeededUnits)
    BY <1>2, <1>3, <2>2, <2>4, GoodLabels, ZenonT(30) DEF G
  <2>6. /\ Moves(labels, labels') /\ labels'[u] = GOOD
        /\ \A v \in Units \ {u} : labels[v] = IN_PATH <=> labels'[v] = IN_PATH
    BY <1>2, <1>3, <1>5, <2>2, <2>3, SMTT(30) DEF Moves, GOOD, BAD, UNSURE, IN_PATH
  <2>7. t = <<>> \/ Unwind(t, labels')
    <3> SUFFICES ASSUME t # <<>> PROVE Unwind(t, labels')
      BY Zenon
    <3>1. Len(t) > 0
      BY <1>7, TailFacts, ZenonT(30) DEF t
    <3>2. 1 \in 1 .. Len(stack) - 1 /\ t[1] = stack[1 + 1]
      BY <1>7, <3>1 DEF t
    <3>3. t[1].at = u
      BY <1>2, <3>2, Zenon DEF StackFine, u
    <3> QED BY <1>3, <2>6, <3>3, UnitsAssumption, ZenonT(30) DEF Unwind
  <2>8. labels' \in [Units -> Int]
    BY <1>2, <2>2, RelabelsType, ZenonT(30)
  <2>9. StackFine(t, labels', refs, Kept, {})
    <3>1. t = Tail(stack) /\ labels'[stack[1].unit] # IN_PATH
      BY <2>6 DEF t, u, GOOD, IN_PATH
    <3>2. \A v \in Units \ {stack[1].unit} : labels[v] = IN_PATH <=> labels'[v] = IN_PATH
      BY <2>6, Zenon DEF u
    <3> QED BY <1>1, <1>2, <2>6, <2>7, <2>8, <3>1, <3>2, StackTail, ZenonT(30)
  <2>10. \A i \in 1 .. Len(t) : t[i].unit \in units
    BY <1>2, <1>7 DEF t
  <2> QED BY <1>7, <2>1, <2>2, <2>5, <2>6, <2>9, <2>10, ZenonT(30) DEF t
<1>9. CASE ~ Label(o, GOOD)
  <2> DEFINE f == [stack[1] EXCEPT !.at = NoUnit, !.is_bad = stack[1].is_bad /\ Label(o, BAD)]
             t == <<f>> \o Tail(stack)
  <2>1. stack' = t /\ UNCHANGED mark
    BY <1>2, <1>9, Zenon DEF Look
  <2>2. labels' = labels /\ Relabels /\ Moves(labels, labels')
    BY <1>1, <1>2, <2>1, ZenonT(30) DEF labels, Relabels, TypeOK, Moves
  <2>3. /\ f \in CallFrame /\ f.unit = u /\ f.at = NoUnit /\ f.todo = stack[1].todo
        /\ f.is_bad = (stack[1].is_bad /\ Label(o, BAD))
    <3>1. (stack[1].is_bad /\ Label(o, BAD)) \in BOOLEAN
      BY Zenon
    <3> QED BY <1>2, <3>1, Zenon DEF CallFrame
  <2>4. /\ t \in Seq(CallFrame) /\ t # <<>> /\ t[1] = f /\ Len(t) = Len(stack)
        /\ \A i \in 2 .. Len(stack) : t[i] = stack[i]
    BY <1>1, <1>2, <2>3, ReplaceFacts, SMTT(30)
  <2>5. StackFine(t, labels, refs, Kept, {})
    <3>1. t = <<f>> \o Tail(stack)
      BY Zenon
    <3>2. f.is_bad => stack[1].is_bad /\ labels[o] = BAD
      BY <1>6, <2>3, Zenon
    <3>3. labels[o] # GOOD
      BY <1>6, <1>9, Zenon
    <3> HIDE DEF t, f
    <3> QED BY <1>1, <1>2, <1>3, <2>3, <3>1, <3>2, <3>3, StackLook, ZenonT(30)
  <2> HIDE DEF t, f
  <2>6. ASSUME NEW i \in 1 .. Len(t) PROVE t[i].unit \in units
    <3>1. CASE i = 1
      BY <1>3, <2>3, <2>4, <3>1, ZenonT(30)
    <3>2. CASE i # 1
      BY <1>2, <2>4, <3>2
    <3> QED BY <3>1, <3>2, Zenon
  <2> QED BY <1>2, <2>1, <2>2, <2>4, <2>5, <2>6, ZenonT(30)
<1> QED BY <1>8, <1>9, Zenon

\* It labels its unit BAD or UNSURE.
LEMMA VerdictInv == ASSUME Inv, Verdict PROVE Inv'
<1>1. /\ stack # <<>> /\ Head(stack).at = NoUnit /\ Head(stack).todo = {} /\ stack' = Tail(stack)
      /\ UNCHANGED <<graph, units, Kept, refs, overlooked, marker, popped, phase, runs>>
  BY GraphKept, Zenon DEF Verdict
<1>2. /\ phase = "gc" /\ popped \in Units /\ popped # NoUnit /\ TypeOK /\ marker \in 1 .. Modulus - 5
      /\ stack \in Seq(CallFrame) /\ Head(stack) = stack[1] /\ stack[1] \in CallFrame /\ 1 \in 1 .. Len(stack)
      /\ StackFine(stack, labels, refs, Kept, {}) /\ LabelsFine(labels, refs, Kept, NeededUnits)
      /\ \A i \in 1 .. Len(stack) : stack[i].unit \in units
      /\ labels[popped] \in 0 .. 3
      /\ labels \in [Units -> Int] /\ Setting(labels, refs, Kept, NeededUnits)
  BY <1>1, StackGc, Zenon
<1> DEFINE u == stack[1].unit
<1>3. u \in Units /\ u \in units
  BY <1>2, Zenon DEF CallFrame
<1>4. ~ Unwind(stack, labels)
  BY <1>1, <1>2, ZenonT(30) DEF Unwind
<1>5. FrameFine(stack[1], labels, refs, Kept, FALSE)
  BY <1>2, <1>4 DEF StackFine, FrameFine
<1>6. /\ u \notin Kept /\ labels[u] = IN_PATH
      /\ \A v \in Ref(refs, u) : /\ labels[v] \in 0 .. 3 /\ labels[v] # GOOD
                                 /\ stack[1].is_bad => labels[v] = BAD
  <2>1. \A v \in Ref(refs, u) : v \notin stack[1].todo /\ v # stack[1].at
    BY <1>1, <1>2, UnitsAssumption, Zenon DEF Ref
  <2> QED BY <1>5, <2>1, Zenon DEF FrameFine
<1>7. /\ Tail(stack) \in Seq(CallFrame) /\ Len(Tail(stack)) = Len(stack) - 1
      /\ \A i \in 1 .. Len(stack) - 1 : Tail(stack)[i] = stack[i + 1]
  BY <1>1, <1>2, TailFacts, Zenon
<1> HIDE DEF u
<1>8. ASSUME NEW b \in {BAD, UNSURE}, SetLabel(u, b), LabelsFine([labels EXCEPT ![u] = b], refs, Kept, NeededUnits)
      PROVE  Relabels /\ Swept'
  <2>1. Relabels /\ labels' = [labels EXCEPT ![u] = b]
    BY <1>1, <1>2, <1>3, <1>8, SetLabelFacts, SMTT(30) DEF BAD, UNSURE
  <2>2. labels' \in [Units -> Int]
    BY <1>2, <2>1, RelabelsType, ZenonT(30)
  <2>3. /\ Moves(labels, labels') /\ ~ NewGood(labels, labels') /\ labels'[u] # IN_PATH
        /\ \A v \in Units \ {u} : labels[v] = IN_PATH <=> labels'[v] = IN_PATH
    BY <1>2, <1>3, <1>6, <2>1 DEF Moves, NewGood, GOOD, BAD, UNSURE, IN_PATH
  <2>4. StackFine(stack', labels', refs, Kept, {})
    BY <1>1, <1>2, <1>4, <2>2, <2>3, StackTail, ZenonT(30) DEF u
  <2>5. \A i \in 1 .. Len(stack') : stack'[i].unit \in units
    BY <1>1, <1>2, <1>7
  <2>6. labels'[popped] \in 0 .. 3
    BY <1>2, <2>3, Zenon DEF Moves
  <2>7. NeededUnits' = NeededUnits
    BY <1>1, Zenon DEF NeededUnits
  <2> QED BY <1>1, <1>8, <2>1, <2>4, <2>5, <2>6, <2>7, ZenonT(30) DEF Swept
<1>9. CASE stack[1].is_bad
  <2>1. SetLabel(u, BAD) /\ cleanup' = cleanup \cup {u} /\ gc_queue' = gc_queue
    BY <1>2, <1>9, ZenonT(30) DEF Verdict, u
  <2>2. u \notin NeededUnits
    BY <1>2, <1>3, <1>6, <1>9, BadNotNeeded, SMTT(30)
  <2>3. LabelsFine([labels EXCEPT ![u] = BAD], refs, Kept, NeededUnits)
    BY <1>2, <1>3, <2>2, BadLabel, ZenonT(30)
  <2>4. Relabels /\ Swept'
    BY <1>8, <2>1, <2>3, Zenon
  <2>5. Waiting' = Waiting /\ Pending \subseteq Pending'
    BY <1>1, <2>1, Zenon DEF Waiting, Pending
  <2>6. /\ cleanup' \subseteq units \ Kept /\ cleanup' \cap NeededUnits = {}
        /\ gc_queue' \in Seq(Units) /\ Waiting' \subseteq units
    BY <1>2, <1>3, <1>6, <2>1, <2>2, <2>5, ZenonT(30) DEF Inv, TypeOK, NoUsedCollected
  <2>7. popped' \in units \cup {NoUnit} /\ popped' # NoUnit /\ stack' \in Seq(CallFrame)
    BY <1>1, <1>2, <1>7, ZenonT(30) DEF TypeOK
  <2> QED BY <1>1, <1>2, <2>4, <2>5, <2>6, <2>7, GcStep, ZenonT(30)
<1>10. CASE ~ stack[1].is_bad
  <2>1. SetLabel(u, UNSURE) /\ unit_add_to_gc_queue({u}) /\ cleanup' = cleanup
    BY <1>2, <1>10, Zenon DEF Verdict, u
  <2>2. \A v \in Ref(refs, u) : labels[v] \in {UNSURE, BAD, IN_PATH}
    BY <1>6 DEF GOOD, BAD, UNSURE, IN_PATH
  <2>3. LabelsFine([labels EXCEPT ![u] = UNSURE], refs, Kept, NeededUnits)
    BY <1>2, <1>3, <1>6, <2>2, UnsureLabel, ZenonT(30)
  <2>4. Relabels /\ Swept'
    BY <1>8, <2>1, <2>3, Zenon
  <2>5. {u} \in SUBSET Units
    BY <1>3, Zenon
  <2>6. gc_queue' \in Seq(Units) /\ Waiting \subseteq Waiting' /\ Waiting' \subseteq Waiting \cup {u}
    BY <1>2, <2>1, <2>5, QueueFacts, ZenonT(30)
  <2>7. Waiting' \subseteq units /\ Pending \subseteq Pending'
    BY <1>1, <1>2, <1>3, <2>1, <2>6, ZenonT(30) DEF Pending, TypeOK
  <2>8. popped' \in units \cup {NoUnit} /\ popped' # NoUnit /\ stack' \in Seq(CallFrame)
    BY <1>1, <1>2, <1>7, Zenon DEF TypeOK
  <2>9. cleanup' \subseteq units \ Kept /\ cleanup' \cap NeededUnits = {}
    BY <1>2, <2>1, Zenon DEF Inv, TypeOK, NoUsedCollected
  <2> QED BY <1>1, <1>2, <2>4, <2>6, <2>7, <2>8, <2>9, GcStep, ZenonT(30)
<1> QED BY <1>9, <1>10, Zenon

\* manager_dispatch_gc_unit_queue() acts on the label of the unit.
LEMMA CollectInv == ASSUME Inv, Collect PROVE Inv'
<1>1. /\ popped # NoUnit /\ stack = <<>> /\ popped' = NoUnit
      /\ UNCHANGED <<graph, units, Kept, refs, overlooked, gc_queue, marker, stack, phase, runs>>
  BY GraphKept, Zenon DEF Collect
<1>2. /\ phase = "gc" /\ popped \in units /\ popped \in Units /\ TypeOK /\ marker \in 1 .. Modulus - 5
      /\ StackFine(<<>>, labels, refs, Kept, {}) /\ LabelsFine(labels, refs, Kept, NeededUnits)
      /\ labels[popped] \in 0 .. 3
  BY <1>1, Zenon DEF Inv, TypeOK, PhaseOK, Swept
<1>3. labels \in [Units -> Int] /\ Setting(labels, refs, Kept, NeededUnits) /\ NeededUnits' = NeededUnits
  BY <1>1, <1>2, LabelsType, InvSetting, ZenonT(30) DEF NeededUnits
<1>4. \A v \in Units : labels[v] # IN_PATH
  BY <1>2 DEF StackFine
<1>5. Collects(popped) <=> labels[popped] = BAD \/ labels[popped] = UNSURE
  BY <1>2, LabelMeaning DEF Collects, BAD, UNSURE
<1>6. /\ Waiting' = Waiting /\ gc_queue' \in Seq(Units) /\ Waiting' \subseteq units
      /\ stack' \in Seq(CallFrame) /\ stack' = <<>>
  BY <1>1, <1>2, Zenon DEF Waiting, TypeOK
<1>7. CASE Collects(popped)
  <2>1. SetLabel(popped, BAD) /\ cleanup' = cleanup \cup {popped}
    BY <1>7, Zenon DEF Collect
  <2>2. popped \notin NeededUnits
    <3>1. CASE labels[popped] = BAD
      BY <1>2, <3>1, Zenon DEF LabelsFine
    <3>2. CASE labels[popped] = UNSURE
      BY <1>2, <1>3, <1>4, <3>2, UnsureNotNeeded, ZenonT(30)
    <3> QED BY <1>5, <1>7, <3>1, <3>2, ZenonT(30)
  <2>3. Relabels /\ labels' = [labels EXCEPT ![popped] = BAD]
    BY <1>1, <1>2, <2>1, SetLabelFacts DEF BAD
  <2>4. LabelsFine(labels', refs, Kept, NeededUnits)
    BY <1>2, <1>3, <2>2, <2>3, BadLabel, ZenonT(30)
  <2>5. StackFine(<<>>, labels', refs, Kept, {})
    <3>1. \A v \in Units : labels'[v] # IN_PATH
      BY <1>3, <1>4, <2>3 DEF BAD, IN_PATH
    <3>2. Len(<<>>) = 0
      BY Zenon
    <3> QED BY <3>1, <3>2 DEF StackFine
  <2>6. Swept'
    <3>1. \A i \in 1 .. Len(stack') : stack'[i].unit \in units
      BY <1>6
    <3> QED BY <1>1, <1>3, <2>4, <2>5, <3>1, ZenonT(30) DEF Swept
  <2>7. popped \notin Kept
    BY <1>2, <2>2, ReachableStart, Zenon DEF NeededUnits, TypeOK
  <2>8. cleanup' \subseteq units \ Kept /\ cleanup' \cap NeededUnits = {} /\ Pending \subseteq Pending'
    BY <1>1, <1>2, <1>6, <2>1, <2>2, <2>7, ZenonT(30) DEF Inv, TypeOK, NoUsedCollected, Pending
  <2> QED BY <1>1, <1>2, <1>6, <2>3, <2>6, <2>8, GcStep, ZenonT(30)
<1>8. CASE ~ Collects(popped)
  <2>1. UNCHANGED <<mark, cleanup>>
    BY <1>8, Zenon DEF Collect
  <2>2. popped \in NeededUnits
    BY <1>2, <1>3, <1>4, <1>5, <1>8, SMTT(30) DEF LabelsFine, GOOD, BAD, UNSURE, IN_PATH
  <2>3. labels' = labels /\ Relabels
    BY <1>1, <1>2, <2>1, Zenon DEF labels, Relabels, TypeOK
  <2>4. Swept'
    <3>1. \A i \in 1 .. Len(stack') : stack'[i].unit \in units
      BY <1>6
    <3> QED BY <1>1, <1>2, <1>3, <2>3, <3>1, ZenonT(30) DEF Swept
  <2>5. cleanup' \subseteq units \ Kept /\ cleanup' \cap NeededUnits = {} /\ Pending \subseteq NeededUnits \cup Pending'
    BY <1>1, <1>2, <1>6, <2>1, <2>2, ZenonT(30) DEF Inv, TypeOK, NoUsedCollected, Pending
  <2> QED BY <1>1, <1>2, <1>6, <2>3, <2>4, <2>5, GcStep, ZenonT(30)
<1> QED BY <1>7, <1>8, Zenon

\* A step that leaves the labels alone, outside of a run of the collector.
LEMMA FreshKept == ASSUME Fresh, UNCHANGED <<mark, marker, runs>> PROVE Fresh'
BY Zenon DEF Fresh

\* Its queue is empty.
LEMMA CollectedInv == ASSUME Inv, Collected PROVE Inv'
<1>1. /\ phase = "gc" /\ popped = NoUnit /\ phase' = "loop"
      /\ UNCHANGED <<graph, units, Kept, refs, overlooked, gc_queue, cleanup, marker, mark, popped, stack, runs>>
  BY GraphKept, Zenon DEF Collected
<1>2. TypeOK' /\ PhaseOK' /\ Swept'
  BY <1>1, GraphKept, ZenonT(30) DEF Inv, TypeOK, PhaseOK, Swept, Waiting
<1>3. NoUsedCollected' /\ Covered'
  BY <1>1 DEF Inv, NoUsedCollected, NeededUnits, Covered, Pending, Waiting
<1> QED BY <1>1, <1>2, <1>3, FreshKept, ZenonT(30) DEF Inv

\* It is called again, and moves gc_marker.
LEMMA DispatchInv == ASSUME Inv, manager_dispatch_gc_unit_queue PROVE Inv'
<1>1. /\ phase \in {"idle", "loop"} /\ runs < MaxRuns /\ marker' = NextMarker /\ runs' = runs + 1
      /\ phase' = IF gc_queue # <<>> THEN "gc" ELSE IF cleanup # {} THEN "cleanup" ELSE "idle"
      /\ UNCHANGED <<graph, units, Kept, refs, overlooked, gc_queue, cleanup, mark, popped, stack>>
  BY GraphKept, Zenon DEF manager_dispatch_gc_unit_queue
<1>2. TypeOK /\ Fresh /\ popped = NoUnit /\ stack = <<>>
  BY <1>1, Zenon DEF Inv, PhaseOK
<1>3. Fresh' /\ marker' \in 1 .. Modulus - 5 /\ \A u \in Units : labels'[u] \notin 0 .. 3
  BY <1>1, <1>2, NewRun, ZenonT(30)
<1>4. runs' \in 0 .. MaxRuns /\ marker' \in 0 .. Modulus - 1
  BY <1>1, <1>2, <1>3, MarkerAssumption, SMTT(30) DEF TypeOK
<1>5. phase' \in {"idle", "loop", "gc", "cleanup"}
  BY <1>1, Zenon
<1>6. TypeOK'
  BY <1>1, <1>2, <1>4, <1>5, GraphKept, ZenonT(30) DEF TypeOK, Waiting
<1>7. PhaseOK'
  <2>1. phase' = "cleanup" => Waiting' = {}
    <3> SUFFICES ASSUME phase' = "cleanup" PROVE Waiting' = {}
      BY Zenon
    <3>1. gc_queue' = <<>>
      BY <1>1, Zenon
    <3> QED BY <3>1 DEF Waiting
  <2>2. phase' = "idle" => cleanup' = {}
    BY <1>1, Zenon
  <2> QED BY <1>1, <1>2, <1>3, <2>1, <2>2, ZenonT(30) DEF PhaseOK
<1>8. Swept'
  <2>1. refs' \subseteq Units \X Units
    BY <1>6, Zenon DEF TypeOK
  <2>2. LabelsFine(labels', refs', Kept', NeededUnits')
    BY <1>3, <2>1 DEF LabelsFine, GOOD, BAD, UNSURE
  <2>3. stack' = <<>> /\ Len(<<>>) = 0
    BY <1>1, <1>2, ZenonT(30)
  <2>4. StackFine(stack', labels', refs', Kept', {})
    BY <1>3, <2>3 DEF StackFine, IN_PATH
  <2> QED BY <1>1, <1>2, <2>2, <2>3, <2>4, SMTT(30) DEF Swept
<1>9. NoUsedCollected' /\ Covered'
  BY <1>1, ZenonT(30) DEF Inv, NoUsedCollected, NeededUnits, Covered, Pending, Waiting
<1> QED BY <1>3, <1>6, <1>7, <1>8, <1>9, ZenonT(30) DEF Inv

-----------------------------------------------------------------------------
(* The other steps: a unit is freed, and what happens while the manager    *)
(* waits for events.                                                       *)

\* unit_free().
LEMMA FreeInv == ASSUME Inv, NEW u \in Units, unit_free(u) PROVE Inv'
<1>1. /\ phase = "cleanup" /\ u \in cleanup /\ units' = units \ {u} /\ cleanup' = cleanup \ {u}
      /\ refs' = {e \in refs : u \notin {e[1], e[2]}} /\ handlers' = {e \in handlers : u \notin {e[1], e[2]}}
      /\ overlooked' = overlooked \ {u} /\ unit_add_to_gc_queue(Neighbours(u))
      /\ phase' \in {"loop", "cleanup"}
      /\ UNCHANGED <<keep, jobs, marker, mark, popped, stack, runs>>
  BY Zenon DEF unit_free
<1>2. TypeOK /\ popped = NoUnit /\ stack = <<>> /\ Waiting \cap cleanup = {}
  BY <1>1, Zenon DEF Inv, PhaseOK
<1>11. Kept' = Kept
  <2>1. u \notin Kept
    BY <1>1, <1>2, Zenon DEF TypeOK
  <2>2. u \notin keep /\ u \notin jobs /\ \A e \in handlers : e[1] = u => e[2] \notin jobs
    BY <2>1, Zenon DEF Kept, unit_may_gc, unit_success_failure_handler_has_jobs
  <2>3. ASSUME NEW v \in Units
        PROVE  unit_success_failure_handler_has_jobs(v)' <=> unit_success_failure_handler_has_jobs(v)
    BY <1>1, <2>2, Zenon DEF unit_success_failure_handler_has_jobs
  <2> QED BY <1>1, <2>3, Zenon DEF Kept, unit_may_gc
<1>3. Neighbours(u) \in SUBSET Units /\ Neighbours(u) \subseteq units \ {u}
  BY <1>2, Zenon DEF Neighbours, TypeOK
<1>4. /\ gc_queue' \in Seq(Units)
      /\ Waiting' = Waiting \cup {v \in Neighbours(u) : v # popped /\ v \notin Waiting /\ v \notin cleanup /\ v \notin Kept}
  BY <1>1, <1>2, <1>3, <1>11, QueueFacts, ZenonT(30)
<1>5. Waiting' \subseteq units \ {u} /\ Waiting' \cap cleanup' = {}
  BY <1>1, <1>2, <1>3, <1>4, ZenonT(30) DEF TypeOK
<1>6. TypeOK'
  <2>1. /\ units' \subseteq Units /\ Kept' \subseteq units' /\ cleanup' \subseteq units' \ Kept'
        /\ overlooked' \subseteq units' /\ handlers' \subseteq refs'
    BY <1>1, <1>2, <1>11, Zenon DEF TypeOK
  <2>3. keep' \subseteq units' /\ jobs' \subseteq units'
    <3>1. keep \subseteq Kept /\ jobs \subseteq Kept
      BY <1>2, Zenon DEF TypeOK, Kept, unit_may_gc
    <3> QED BY <1>1, <1>11, <2>1, <3>1, ZenonT(30)
  <2>2. refs' \subseteq units' \X units'
    <3> SUFFICES ASSUME NEW e \in refs' PROVE e \in units' \X units'
      BY Zenon
    <3>1. e \in units \X units /\ e[1] # u /\ e[2] # u
      BY <1>1, <1>2, Zenon DEF TypeOK
    <3> QED BY <1>1, <3>1, Zenon
  <2> QED BY <1>1, <1>2, <1>4, <1>5, <2>1, <2>2, <2>3, ZenonT(30) DEF TypeOK
<1>7. PhaseOK' /\ Swept' /\ Fresh'
  BY <1>1, <1>2, <1>5, FreshKept, ZenonT(30) DEF PhaseOK, Swept, Inv
<1>8. refs \in SUBSET (Units \X Units) /\ refs' \in SUBSET (Units \X Units) /\ Kept \in SUBSET Units
  BY <1>2, <1>6, Zenon DEF TypeOK
<1>9. NoUsedCollected'
  <2>1. NeededUnits' \subseteq NeededUnits
    <3>1. refs' \subseteq refs
      BY <1>1, Zenon
    <3> QED BY <1>1, <1>11, <1>8, <3>1, ReachableMono, ZenonT(30) DEF NeededUnits
  <2> QED BY <1>1, <2>1, Zenon DEF Inv, NoUsedCollected
<1>10. Covered'
  <2> DEFINE S == Kept \cup Pending
             T == Kept' \cup Pending'
             C == Reachable(T, refs') \cup {u}
  <2>1. S \in SUBSET Units /\ T \in SUBSET Units /\ S \subseteq T \cup {u}
    BY <1>1, <1>2, <1>11, <1>4, <1>6, ZenonT(30) DEF Pending, TypeOK
  <2>2. T \subseteq Reachable(T, refs') /\ Reachable(T, refs') \in SUBSET Units
    BY <2>1, ReachableStart, ReachableUnits, Zenon
  <2>3. C \in SUBSET Units /\ S \subseteq C
    BY <2>1, <2>2, Zenon
  <2>4. ASSUME NEW e \in refs, e[1] \in C PROVE e[2] \in C
    <3>1. e[1] \in units /\ e[2] \in units /\ e = <<e[1], e[2]>>
      BY <1>2 DEF TypeOK
    <3>2. CASE e[2] = u
      BY <3>2, Zenon
    <3>3. CASE e[2] # u /\ e[1] = u
      <4>1. <<u, e[2]>> \in refs
        BY <3>1, <3>3, Zenon
      <4>2. e[2] \in Neighbours(u)
        BY <3>1, <3>3, <4>1, ZenonT(30) DEF Neighbours
      <4>3. e[2] \in Kept \cup Waiting' \cup cleanup'
        BY <1>1, <1>2, <1>4, <3>1, <3>3, <4>2, UnitsAssumption, ZenonT(30) DEF TypeOK
      <4>4. e[2] \in T
        BY <1>1, <1>11, <4>3, ZenonT(30) DEF Pending
      <4> QED BY <2>2, <4>4, Zenon
    <3>4. CASE e[2] # u /\ e[1] # u
      <4>1. e \in refs' /\ e[1] \in Reachable(T, refs')
        BY <1>1, <2>4, <3>4, ZenonT(30)
      <4> QED BY <1>8, <4>1, ReachableClosed, ZenonT(30)
    <3> QED BY <3>2, <3>3, <3>4, ZenonT(30)
  <2>5. Closed(C, refs)
    BY <2>4, Zenon DEF Closed
  <2> HIDE DEF C
  <2>6. Reachable(S, refs) \subseteq C
    BY <2>3, <2>5, ReachableLeast, ZenonT(30)
  <2> QED BY <1>1, <2>6, Zenon DEF Inv, Covered, C
<1> QED BY <1>6, <1>7, <1>9, <1>10, ZenonT(30) DEF Inv

\* What a step has to see to that is taken while the manager waits for events.
LEMMA IdleStep ==
  ASSUME Inv, phase = "idle", UNCHANGED <<popped, stack, phase, runs, marker>>,
         TypeOK', Fresh', \A e \in refs' : e[1] \notin cleanup' /\ e[2] \notin cleanup',
         NEW C \in SUBSET Units, Kept \cup Pending \subseteq C, Closed(C, refs),
         units' \cap C \subseteq Reachable(Kept' \cup Pending', refs'),
         units' \ units \subseteq Pending'
  PROVE  Inv'
<1>1. PhaseOK' /\ Swept'
  BY Zenon DEF Inv, PhaseOK, Swept
<1>2. Kept' \in SUBSET Units /\ refs' \in SUBSET (Units \X Units) /\ Kept' \cap cleanup' = {}
      /\ Kept' \cup Pending' \in SUBSET Units
  BY Zenon DEF TypeOK, Pending
<1>3. NoUsedCollected'
  BY <1>2, Untouched, Zenon DEF NoUsedCollected, NeededUnits
<1>4. Reachable(Kept \cup Pending, refs) \subseteq C
  BY ReachableLeast, Zenon
<1>5. Pending' \subseteq Reachable(Kept' \cup Pending', refs')
  BY <1>2, ReachableStart, Zenon
<1>6. Covered'
  BY <1>4, <1>5, Zenon DEF Covered, Inv
<1> QED BY <1>1, <1>3, <1>6, ZenonT(30) DEF Inv

\* The usual case: what was pending or kept still is, and no reference is lost.
LEMMA IdleGrows ==
  ASSUME Inv, phase = "idle", UNCHANGED <<popped, stack, phase, runs, marker>>,
         TypeOK', Fresh', \A e \in refs' : e[1] \notin cleanup' /\ e[2] \notin cleanup',
         Kept \cup Pending \subseteq Kept' \cup Pending',
         \A e \in refs \ refs' : e[2] \in Kept' \cup Pending',
         units' \ units \subseteq Pending'
  PROVE  Inv'
<1> DEFINE T == Kept' \cup Pending'
           C == Reachable(T, refs')
<1>1. T \in SUBSET Units /\ refs' \in SUBSET (Units \X Units)
  BY ZenonT(30) DEF TypeOK, Pending
<1>2. C \in SUBSET Units /\ T \subseteq C
  BY <1>1, ReachableStart, ReachableUnits, Zenon
<1>3. Closed(C, refs)
  <2> SUFFICES ASSUME NEW e \in refs, e[1] \in C PROVE e[2] \in C
    BY Zenon DEF Closed
  <2>1. CASE e \in refs'
    BY <1>1, <2>1, ReachableClosed, ZenonT(30)
  <2>2. CASE e \notin refs'
    BY <1>2, <2>2, Zenon
  <2> QED BY <2>1, <2>2, Zenon
<1>4. Kept \cup Pending \subseteq C /\ units' \cap C \subseteq Reachable(Kept' \cup Pending', refs')
  BY <1>2, Zenon
<1> HIDE DEF C
<1> QED BY <1>2, <1>3, <1>4, IdleStep, ZenonT(30)

\* What it has to see to so that types stay right.
LEMMA IdleType ==
  ASSUME Inv, phase = "idle", UNCHANGED <<popped, stack, phase, runs, marker>>,
         units' \subseteq Units, keep' \subseteq units' \ cleanup', jobs' \subseteq units' \ cleanup',
         refs' \subseteq units' \X units', handlers' \subseteq refs', overlooked' \subseteq units',
         \A e \in refs' : e[1] \notin cleanup',
         cleanup' \subseteq units', units \subseteq units', gc_queue' \in Seq(Units), Waiting' \subseteq units',
         mark' \in [Units -> 0 .. Modulus - 1]
  PROVE  TypeOK'
<1>1. Kept' \subseteq units' \ cleanup'
  <2> SUFFICES ASSUME NEW v \in Kept' PROVE v \in units' \ cleanup'
    BY Zenon
  <2>1. v \in keep' \/ v \in jobs' \/ \E e \in handlers' : e[1] = v
    BY Zenon DEF Kept, unit_may_gc, unit_success_failure_handler_has_jobs
  <2>2. ASSUME NEW e \in handlers' PROVE e[1] \in units' \ cleanup'
    BY Zenon
  <2> QED BY <2>1, <2>2, Zenon
<1> QED BY <1>1, ZenonT(30) DEF Inv, TypeOK

\* What a unit in front of the queue comes to.
LEMMA PushWaiting ==
  ASSUME TypeOK, NEW u \in Units, gc_queue' = <<u>> \o gc_queue
  PROVE  gc_queue' \in Seq(Units) /\ Waiting' = Waiting \cup {u}
<1>1. gc_queue \in Seq(Units)
  BY Zenon DEF TypeOK
<1>2. /\ gc_queue' \in Seq(Units) /\ Len(gc_queue') = Len(gc_queue) + 1 /\ gc_queue'[1] = u
      /\ Len(gc_queue) \in Nat
      /\ \A i \in 1 .. Len(gc_queue) : gc_queue'[i + 1] = gc_queue[i]
      /\ \A i \in 2 .. Len(gc_queue') : gc_queue'[i] = gc_queue[i - 1]
  BY <1>1, PushFacts
<1>3. Waiting' \subseteq Waiting \cup {u}
  <2> SUFFICES ASSUME NEW i \in 1 .. Len(gc_queue'), i # 1 PROVE gc_queue'[i] \in Waiting
    BY <1>2, Zenon DEF Waiting
  <2>1. i - 1 \in 1 .. Len(gc_queue) /\ gc_queue'[i] = gc_queue[i - 1]
    BY <1>2
  <2> QED BY <2>1, Zenon DEF Waiting
<1>4. u \in Waiting'
  BY <1>2 DEF Waiting
<1>5. Waiting \subseteq Waiting'
  <2> SUFFICES ASSUME NEW i \in 1 .. Len(gc_queue) PROVE gc_queue[i] \in Waiting'
    BY Zenon DEF Waiting
  <2>1. i + 1 \in 1 .. Len(gc_queue') /\ gc_queue'[i + 1] = gc_queue[i]
    BY <1>2
  <2> QED BY <2>1, Zenon DEF Waiting
<1> QED BY <1>2, <1>3, <1>4, <1>5, ZenonT(30)

\* What queueing one unit comes to.
LEMMA QueueOne ==
  ASSUME Inv, phase = "idle", NEW u \in units, unit_add_to_gc_queue({u}), UNCHANGED cleanup
  PROVE  /\ gc_queue' \in Seq(Units) /\ Waiting \subseteq Waiting' /\ Waiting' \subseteq Waiting \cup {u}
         /\ u \in Kept' \cup Waiting' \cup cleanup'
<1>1. TypeOK /\ popped = NoUnit /\ u # popped /\ {u} \in SUBSET Units
  BY UnitsAssumption, ZenonT(30) DEF Inv, PhaseOK, TypeOK
<1>2. /\ gc_queue' \in Seq(Units)
      /\ Waiting' = Waiting \cup {v \in {u} : v # popped /\ v \notin Waiting /\ v \notin cleanup /\ v \notin Kept'}
  BY <1>1, QueueFacts, ZenonT(30)
<1> QED BY <1>1, <1>2, ZenonT(30)

\* What the state says of the units that are kept, while no unit on its way out is referred to.
LEMMA IdleFacts ==
  ASSUME Inv, phase = "idle"
  PROVE  /\ TypeOK /\ popped = NoUnit /\ \A e \in refs : e[1] \notin cleanup /\ e[2] \notin cleanup
         /\ units \subseteq Units /\ keep \subseteq units \ cleanup /\ jobs \subseteq units \ cleanup
         /\ refs \subseteq units \X units /\ handlers \subseteq refs /\ overlooked \subseteq units
         /\ cleanup \subseteq units /\ Waiting \subseteq units /\ mark \in [Units -> 0 .. Modulus - 1]
         /\ gc_queue \in Seq(Units)
<1>1. TypeOK /\ popped = NoUnit /\ \A e \in refs : e[1] \notin cleanup /\ e[2] \notin cleanup
  BY Zenon DEF Inv, PhaseOK
<1>2. keep \subseteq Kept /\ jobs \subseteq Kept
  BY <1>1, Zenon DEF TypeOK, Kept, unit_may_gc
<1> QED BY <1>1, <1>2, ZenonT(30) DEF TypeOK

\* A unit is loaded.
LEMMA LoadInv == ASSUME Inv, NEW u \in Units, unit_load(u) PROVE Inv'
<1>1. /\ phase = "idle" /\ u \notin units /\ units' = units \cup {u} /\ mark' = [mark EXCEPT ![u] = 0]
      /\ gc_queue' = <<u>> \o gc_queue
      /\ UNCHANGED <<keep, jobs, overlooked, cleanup, marker, popped, stack, phase, runs>>
  BY Zenon DEF unit_load
<1>2. PICK new \in SUBSET (({u} \X (units \ cleanup)) \cup ((units \ cleanup) \X {u})) :
        /\ refs' = refs \cup new
        /\ \E on \in SUBSET (new \cap OnResult) : handlers' = handlers \cup on
  BY Zenon DEF unit_load
<1>3. /\ TypeOK /\ units \subseteq Units /\ keep \subseteq units \ cleanup /\ jobs \subseteq units \ cleanup
      /\ refs \subseteq units \X units /\ handlers \subseteq refs /\ overlooked \subseteq units
      /\ cleanup \subseteq units /\ Waiting \subseteq units /\ mark \in [Units -> 0 .. Modulus - 1]
      /\ \A e \in refs : e[1] \notin cleanup /\ e[2] \notin cleanup
  BY <1>1, IdleFacts, Zenon
<1>4. gc_queue' \in Seq(Units) /\ Waiting' = Waiting \cup {u}
  BY <1>1, <1>3, PushWaiting, ZenonT(30)
<1>5. mark' \in [Units -> 0 .. Modulus - 1] /\ Fresh'
  <2>1. 0 \in 0 .. Modulus - 1
    BY MarkerAssumption
  <2> QED BY <1>1, <1>3, <2>1, ZenonT(30) DEF Inv, Fresh
<1>6. refs' \subseteq units' \X units' /\ handlers \subseteq handlers' /\ handlers' \subseteq refs'
  BY <1>1, <1>2, <1>3, ZenonT(30)
<1>7. ASSUME NEW e \in refs' PROVE e[1] \notin cleanup' /\ e[2] \notin cleanup'
  <2>1. CASE e \in refs
    BY <1>1, <1>3, <2>1, ZenonT(30)
  <2>2. CASE e \in new
    BY <1>1, <1>2, <1>3, <2>2, ZenonT(30)
  <2> QED BY <1>2, <2>1, <2>2, ZenonT(30)
<1>8. TypeOK'
  <2>1. /\ units' \subseteq Units /\ keep' \subseteq units' \ cleanup' /\ jobs' \subseteq units' \ cleanup'
        /\ overlooked' \subseteq units' /\ cleanup' \subseteq units' /\ units \subseteq units'
        /\ Waiting' \subseteq units'
    BY <1>1, <1>3, <1>4, ZenonT(30)
  <2> QED BY <1>1, <1>4, <1>5, <1>6, <1>7, <2>1, IdleType, ZenonT(30)
<1>9. Kept \subseteq Kept'
  BY <1>1, <1>6, ZenonT(30) DEF Kept, unit_may_gc, unit_success_failure_handler_has_jobs
<1>10. /\ Kept \cup Pending \subseteq Kept' \cup Pending' /\ refs \ refs' = {}
       /\ units' \ units \subseteq Pending'
  BY <1>1, <1>2, <1>4, <1>9, ZenonT(30) DEF Pending
<1> QED BY <1>1, <1>5, <1>7, <1>8, <1>10, IdleGrows, ZenonT(30)

\* Something begins to need a unit, or a unit gets a job.
LEMMA UseInv == ASSUME Inv, NEW u \in Units, Use(u) \/ job_install(u) PROVE Inv'
<1>1. /\ phase = "idle" /\ u \in units \ cleanup
      /\ keep \subseteq keep' /\ keep' \subseteq keep \cup {u} /\ jobs \subseteq jobs' /\ jobs' \subseteq jobs \cup {u}
      /\ UNCHANGED <<units, refs, handlers, overlooked, gc_queue, cleanup, marker, mark, popped, stack, phase, runs>>
  BY Zenon DEF Use, job_install
<1>2. /\ units \subseteq Units /\ keep \subseteq units \ cleanup /\ jobs \subseteq units \ cleanup
      /\ refs \subseteq units \X units /\ handlers \subseteq refs /\ overlooked \subseteq units
      /\ cleanup \subseteq units /\ Waiting \subseteq units /\ mark \in [Units -> 0 .. Modulus - 1]
      /\ gc_queue \in Seq(Units) /\ \A e \in refs : e[1] \notin cleanup /\ e[2] \notin cleanup
  BY <1>1, IdleFacts, Zenon
<1>3. Waiting' = Waiting /\ Pending' = Pending
  BY <1>1, Zenon DEF Pending, Waiting
<1>4. Fresh' /\ \A e \in refs' : e[1] \notin cleanup' /\ e[2] \notin cleanup'
  BY <1>1, <1>2, FreshKept, ZenonT(30) DEF Inv
<1>5. TypeOK'
  <2>1. keep' \subseteq units' \ cleanup' /\ jobs' \subseteq units' \ cleanup'
    BY <1>1, <1>2, ZenonT(30)
  <2> QED BY <1>1, <1>2, <1>3, <1>4, <2>1, IdleType, ZenonT(30)
<1>6. Kept \subseteq Kept'
  BY <1>1, Zenon DEF Kept, unit_may_gc, unit_success_failure_handler_has_jobs
<1>7. /\ Kept \cup Pending \subseteq Kept' \cup Pending' /\ refs \ refs' = {} /\ units' \ units = {}
  BY <1>1, <1>3, <1>6, ZenonT(30)
<1> QED BY <1>1, <1>4, <1>5, <1>7, IdleGrows, ZenonT(30)

\* It ceases to.
LEMMA ReleaseInv == ASSUME Inv, NEW u \in Units, Release(u) PROVE Inv'
<1>1. /\ phase = "idle" /\ u \in keep /\ keep' = keep \ {u} /\ unit_add_to_gc_queue({u})
      /\ UNCHANGED <<units, jobs, refs, handlers, overlooked, cleanup, marker, mark, popped, stack, phase, runs>>
  BY Zenon DEF Release
<1>2. /\ units \subseteq Units /\ keep \subseteq units \ cleanup /\ jobs \subseteq units \ cleanup
      /\ refs \subseteq units \X units /\ handlers \subseteq refs /\ overlooked \subseteq units
      /\ cleanup \subseteq units /\ Waiting \subseteq units /\ mark \in [Units -> 0 .. Modulus - 1]
      /\ \A e \in refs : e[1] \notin cleanup /\ e[2] \notin cleanup
  BY <1>1, IdleFacts, Zenon
<1>3. /\ gc_queue' \in Seq(Units) /\ Waiting \subseteq Waiting' /\ Waiting' \subseteq Waiting \cup {u}
      /\ u \in Kept' \cup Waiting' \cup cleanup' /\ u \in units
  BY <1>1, <1>2, QueueOne, ZenonT(30)
<1>4. Fresh' /\ \A e \in refs' : e[1] \notin cleanup' /\ e[2] \notin cleanup'
  BY <1>1, <1>2, FreshKept, Zenon DEF Inv
<1>5. TypeOK'
  <2>1. keep' \subseteq units' \ cleanup' /\ Waiting' \subseteq units'
    BY <1>1, <1>2, <1>3, ZenonT(30)
  <2> QED BY <1>1, <1>2, <1>3, <1>4, <2>1, IdleType, ZenonT(30)
<1>6. Kept \subseteq Kept' \cup {u}
  BY <1>1, Zenon DEF Kept, unit_may_gc, unit_success_failure_handler_has_jobs
<1>7. /\ Kept \cup Pending \subseteq Kept' \cup Pending' /\ refs \ refs' = {} /\ units' \ units = {}
  BY <1>1, <1>3, <1>6, ZenonT(30) DEF Pending
<1> QED BY <1>1, <1>4, <1>5, <1>7, IdleGrows, ZenonT(30)

\* A job goes.
LEMMA UninstallInv == ASSUME Inv, NEW u \in Units, job_uninstall(u) PROVE Inv'
<1>1. /\ phase = "idle" /\ u \in jobs /\ jobs' = jobs \ {u} /\ unit_add_to_gc_queue({u})
      /\ overlooked' = overlooked \cup {v \in units : <<v, u>> \in handlers /\ unit_may_gc(v)'}
      /\ UNCHANGED <<units, keep, refs, handlers, cleanup, marker, mark, popped, stack, phase, runs>>
  BY Zenon DEF job_uninstall
<1>2. /\ units \subseteq Units /\ keep \subseteq units \ cleanup /\ jobs \subseteq units \ cleanup
      /\ refs \subseteq units \X units /\ handlers \subseteq refs /\ overlooked \subseteq units
      /\ cleanup \subseteq units /\ Waiting \subseteq units /\ mark \in [Units -> 0 .. Modulus - 1]
      /\ \A e \in refs : e[1] \notin cleanup /\ e[2] \notin cleanup
  BY <1>1, IdleFacts, Zenon
<1>3. /\ gc_queue' \in Seq(Units) /\ Waiting \subseteq Waiting' /\ Waiting' \subseteq Waiting \cup {u}
      /\ u \in Kept' \cup Waiting' \cup cleanup' /\ u \in units
  BY <1>1, <1>2, QueueOne, ZenonT(30)
<1>4. Fresh' /\ \A e \in refs' : e[1] \notin cleanup' /\ e[2] \notin cleanup'
  BY <1>1, <1>2, FreshKept, Zenon DEF Inv
<1>5. TypeOK'
  <2>1. jobs' \subseteq units' \ cleanup' /\ Waiting' \subseteq units' /\ overlooked' \subseteq units'
    BY <1>1, <1>2, <1>3, Zenon
  <2> QED BY <1>1, <1>2, <1>3, <1>4, <2>1, IdleType, ZenonT(30)
<1>6. ASSUME NEW v \in Kept, v # u, v \notin Kept' PROVE v \in overlooked'
  <2>1. unit_may_gc(v)' /\ v \in Units
    BY <1>6, Zenon DEF Kept
  <2>2. v \notin keep /\ v \notin jobs
    BY <1>1, <1>6, <2>1, ZenonT(30) DEF unit_may_gc
  <2>3. PICK e \in handlers : e[1] = v /\ e[2] \in jobs
    BY <2>2, Zenon DEF Kept, unit_may_gc, unit_success_failure_handler_has_jobs
  <2>4. e[2] = u
    BY <1>1, <2>1, <2>3, ZenonT(30) DEF unit_may_gc, unit_success_failure_handler_has_jobs
  <2>5. e = <<v, u>> /\ v \in units
    BY <1>2, <2>3, <2>4
  <2> QED BY <1>1, <2>1, <2>3, <2>5, ZenonT(30)
<1>7. /\ Kept \cup Pending \subseteq Kept' \cup Pending' /\ refs \ refs' = {} /\ units' \ units = {}
  <2>1. Pending \subseteq Pending' /\ u \in Kept' \cup Pending' /\ overlooked' \subseteq Pending'
    BY <1>1, <1>3, ZenonT(30) DEF Pending
  <2> QED BY <1>1, <1>6, <2>1, ZenonT(30)
<1> QED BY <1>1, <1>4, <1>5, <1>7, IdleGrows, ZenonT(30)

\* A reference is dropped.
LEMMA DropInv == ASSUME Inv, NEW e \in refs, DropReference(e) PROVE Inv'
<1>1. /\ phase = "idle" /\ e \notin handlers /\ refs' = refs \ {e} /\ unit_add_to_gc_queue({e[2]})
      /\ UNCHANGED <<units, keep, jobs, handlers, overlooked, cleanup, marker, mark, popped, stack, phase, runs>>
  BY Zenon DEF DropReference
<1>2. /\ units \subseteq Units /\ keep \subseteq units \ cleanup /\ jobs \subseteq units \ cleanup
      /\ refs \subseteq units \X units /\ handlers \subseteq refs /\ overlooked \subseteq units
      /\ cleanup \subseteq units /\ Waiting \subseteq units /\ mark \in [Units -> 0 .. Modulus - 1]
      /\ \A d \in refs : d[1] \notin cleanup /\ d[2] \notin cleanup
  BY <1>1, IdleFacts, Zenon
<1>3. /\ gc_queue' \in Seq(Units) /\ Waiting \subseteq Waiting' /\ Waiting' \subseteq Waiting \cup {e[2]}
      /\ e[2] \in Kept' \cup Waiting' \cup cleanup' /\ e[2] \in units
  <2>1. e[2] \in units
    BY <1>2, Zenon
  <2> QED BY <1>1, <2>1, QueueOne, ZenonT(30)
<1>4. Fresh' /\ \A d \in refs' : d[1] \notin cleanup' /\ d[2] \notin cleanup'
  BY <1>1, <1>2, FreshKept, Zenon DEF Inv
<1>5. TypeOK'
  <2>1. refs' \subseteq units' \X units' /\ handlers' \subseteq refs' /\ Waiting' \subseteq units'
    BY <1>1, <1>2, <1>3, ZenonT(30)
  <2> QED BY <1>1, <1>2, <1>3, <1>4, <2>1, IdleType, ZenonT(30)
<1>6. Kept' = Kept
  BY <1>1, Zenon DEF Kept, unit_may_gc, unit_success_failure_handler_has_jobs
<1>7. /\ Kept \cup Pending \subseteq Kept' \cup Pending' /\ units' \ units = {}
      /\ \A d \in refs \ refs' : d[2] \in Kept' \cup Pending'
  BY <1>1, <1>3, <1>6, ZenonT(30) DEF Pending
<1> QED BY <1>1, <1>4, <1>5, <1>7, IdleGrows, ZenonT(30)

\* unit_merge().
LEMMA MergeInv == ASSUME Inv, NEW u \in Units, NEW other \in Units, unit_merge(u, other) PROVE Inv'
<1> DEFINE moved(v) == IF v = other THEN u ELSE v
           redirected(E) == {e \in (units \ {other}) \X (units \ {other}) :
                              e[1] # e[2] /\ \E d \in E : e = <<moved(d[1]), moved(d[2])>>}
<1>1. /\ phase = "idle" /\ u \in units \ cleanup /\ other \in units \ (cleanup \cup jobs \cup {u})
      /\ \A e \in refs : e[1] # other
      /\ refs' = redirected(refs) /\ handlers' = redirected(handlers)
      /\ keep' = keep \ {other} /\ cleanup' = cleanup \cup {other}
      /\ UNCHANGED <<units, jobs, overlooked, gc_queue, marker, mark, popped, stack, phase, runs>>
  BY Zenon DEF unit_merge
<1>2. /\ units \subseteq Units /\ keep \subseteq units \ cleanup /\ jobs \subseteq units \ cleanup
      /\ refs \subseteq units \X units /\ handlers \subseteq refs /\ overlooked \subseteq units
      /\ cleanup \subseteq units /\ Waiting \subseteq units /\ mark \in [Units -> 0 .. Modulus - 1]
      /\ gc_queue \in Seq(Units) /\ \A e \in refs : e[1] \notin cleanup /\ e[2] \notin cleanup
  BY <1>1, IdleFacts, Zenon
<1>3. Waiting' = Waiting /\ Pending' = Pending \cup {other}
  BY <1>1, ZenonT(30) DEF Pending, Waiting
<1>4. Fresh'
  BY <1>1, FreshKept, Zenon DEF Inv
<1>5. ASSUME NEW e \in refs' PROVE e[1] \notin cleanup' /\ e[2] \notin cleanup'
  <2>1. /\ e[1] \in units \ {other} /\ e[2] \in units \ {other}
        /\ \E d \in refs : e[1] = moved(d[1]) /\ e[2] = moved(d[2])
    BY <1>1
  <2>2. PICK d \in refs : e[1] = moved(d[1]) /\ e[2] = moved(d[2])
    BY <2>1, ZenonT(30)
  <2> QED BY <1>1, <1>2, <2>1, <2>2, ZenonT(30)
<1>6. TypeOK'
  <2>1. refs' \subseteq units' \X units'
    BY <1>1, Zenon
  <2>2. handlers' \subseteq refs'
    BY <1>1, <1>2, ZenonT(30)
  <2>3. keep' \subseteq units' \ cleanup' /\ jobs' \subseteq units' \ cleanup' /\ cleanup' \subseteq units'
    BY <1>1, <1>2, ZenonT(30)
  <2> HIDE DEF redirected
  <2> QED BY <1>1, <1>2, <1>3, <1>5, <2>1, <2>2, <2>3, IdleType, ZenonT(30)
<1>7. Kept \subseteq Kept' \cup {other}
  <2> SUFFICES ASSUME NEW v \in Kept, v # other PROVE v \in Kept'
    BY Zenon
  <2>1. v \in Units /\ (v \in keep \/ v \in jobs \/ \E d \in handlers : d[1] = v /\ d[2] \in jobs)
    BY Zenon DEF Kept, unit_may_gc, unit_success_failure_handler_has_jobs
  <2>2. CASE v \in keep \/ v \in jobs
    BY <1>1, <2>1, <2>2, ZenonT(30) DEF Kept, unit_may_gc
  <2>3. CASE v \notin jobs /\ \E d \in handlers : d[1] = v /\ d[2] \in jobs
    <3>1. PICK d \in handlers : d[1] = v /\ d[2] \in jobs
      BY <2>3, ZenonT(30)
    <3>2. /\ d = <<v, d[2]>> /\ v # d[2] /\ d[2] # other /\ moved(d[1]) = v /\ moved(d[2]) = d[2]
          /\ d \in (units \ {other}) \X (units \ {other})
      BY <1>1, <1>2, <2>3, <3>1, SMTT(30)
    <3>3. d \in handlers'
      BY <1>1, <3>1, <3>2, ZenonT(30)
    <3> QED BY <1>1, <2>1, <3>1, <3>3, ZenonT(30) DEF Kept, unit_may_gc, unit_success_failure_handler_has_jobs
  <2> QED BY <2>1, <2>2, <2>3, ZenonT(30)
<1> DEFINE T == Kept' \cup Pending'
           C == Reachable(T, refs') \cup {other}
<1>8. T \in SUBSET Units /\ refs' \in SUBSET (Units \X Units) /\ Kept \cup Pending \subseteq T /\ other \in T
  <2>1. T \in SUBSET Units /\ refs' \in SUBSET (Units \X Units)
    BY <1>6, ZenonT(30) DEF TypeOK, Pending
  <2> QED BY <1>3, <1>7, <2>1, ZenonT(30)
<1>9. T \subseteq Reachable(T, refs') /\ Reachable(T, refs') \in SUBSET Units
  BY <1>8, ReachableStart, ReachableUnits, ZenonT(30)
<1>10. ASSUME NEW d \in refs, d[1] \in C PROVE d[2] \in C
  <2>1. d[1] \in units /\ d[2] \in units /\ d = <<d[1], d[2]>> /\ d[1] # other
    BY <1>1, <1>2
  <2>2. CASE d[2] = other \/ d[1] = d[2]
    BY <1>10, <2>2, ZenonT(30)
  <2>3. CASE d[2] # other /\ d[1] # d[2]
    <3>1. moved(d[1]) = d[1] /\ moved(d[2]) = d[2]
      BY <2>1, <2>3, ZenonT(30)
    <3>2. d \in (units \ {other}) \X (units \ {other}) /\ d = <<moved(d[1]), moved(d[2])>>
      BY <1>2, <2>1, <2>3, <3>1, SMTT(30)
    <3>3. d \in refs'
      BY <1>1, <2>3, <3>2, ZenonT(30)
    <3>4. d[1] \in Reachable(T, refs')
      BY <1>10, <2>1, Zenon
    <3> QED BY <1>8, <3>3, <3>4, ReachableClosed, ZenonT(30)
  <2> QED BY <2>2, <2>3, ZenonT(30)
<1>11. C \in SUBSET Units /\ Kept \cup Pending \subseteq C /\ Closed(C, refs)
       /\ units' \cap C \subseteq Reachable(T, refs')
  BY <1>8, <1>9, <1>10, ZenonT(30) DEF Closed
<1>12. units' \ units = {}
  BY <1>1, Zenon
<1> HIDE DEF C
<1> QED BY <1>1, <1>4, <1>5, <1>6, <1>11, <1>12, IdleStep, ZenonT(30)

-----------------------------------------------------------------------------
(* Theorems.                                                               *)

\* The invariant holds to begin with.
LEMMA InitInv == Init => Inv
<1> SUFFICES ASSUME Init PROVE Inv
  BY Zenon
<1>1. /\ units = {} /\ keep = {} /\ jobs = {} /\ refs = {} /\ handlers = {} /\ overlooked = {} /\ gc_queue = <<>> /\ cleanup = {} /\ popped = NoUnit
      /\ stack = <<>> /\ phase = "idle" /\ runs = 0 /\ mark = [u \in Units |-> 0] /\ marker \in Start
  BY Zenon DEF Init
<1>2. Waiting = {} /\ Kept = {}
  BY <1>1 DEF Waiting, Kept, unit_may_gc, unit_success_failure_handler_has_jobs
<1>3. marker \in 0 .. Modulus - 1 /\ 0 \in 0 .. Modulus - 1 /\ runs \in 0 .. MaxRuns
  BY <1>1, MarkerAssumption
<1>4. TypeOK
  BY <1>1, <1>2, <1>3, SMTT(30) DEF TypeOK
<1>5. PhaseOK /\ Swept /\ NoUsedCollected /\ Covered
  BY <1>1, Zenon DEF PhaseOK, Swept, NoUsedCollected, Covered
<1>6. Fresh
  BY <1>1, Zenon DEF Fresh
<1> QED BY <1>4, <1>5, <1>6, ZenonT(30) DEF Inv

\* Every step keeps it.
LEMMA NextInv == Inv /\ [Next]_vars => Inv'
<1> SUFFICES ASSUME Inv, [Next]_vars PROVE Inv'
  BY Zenon
<1>1. CASE UNCHANGED vars
  BY <1>1, GraphKept, ZenonT(60) DEF vars, Inv, TypeOK, PhaseOK, Fresh, Swept, NoUsedCollected, Covered, Pending, Waiting, NeededUnits, labels
<1>2. CASE Dispatch
  BY <1>2, DispatchInv, PopInv, VisitInv, LookInv, VerdictInv, CollectInv, CollectedInv, FreeInv, Zenon DEF Dispatch
<1>3. CASE \E u \in Units : unit_load(u) \/ Use(u) \/ Release(u) \/ job_install(u) \/ job_uninstall(u)
  BY <1>3, LoadInv, UseInv, ReleaseInv, UninstallInv, Zenon
<1>4. CASE \E u, other \in Units : unit_merge(u, other)
  BY <1>4, MergeInv, Zenon
<1>5. CASE \E e \in refs : DropReference(e)
  BY <1>5, DropInv, Zenon
<1> QED BY <1>1, <1>2, <1>3, <1>4, <1>5, ZenonT(30) DEF Next

\* The inductive invariant: the labels mean what unit_gc_sweep() takes them for, the
\* calls under way are a path of references, labels of earlier runs are never taken for
\* ones of this run, and every unit that nothing needs is on its way to the collector.
THEOREM InvAlways == Spec => []Inv
BY InitInv, NextInv, PTL DEF Spec

\* unit_gc_sweep() and manager_dispatch_gc_unit_queue() never collect a unit that
\* something needs: for any number of units and references, loops of them included, in
\* whatever order the search takes them, and when gc_marker wraps around.
THEOREM NoUsedCollectedAlways == Spec => []NoUsedCollected
<1>1. Inv => NoUsedCollected
  BY ZenonT(30) DEF Inv
<1> QED BY <1>1, InvAlways, PTL

\* Once the manager waits for events with nothing queued, every unit that is loaded is
\* needed, or was left behind by job_uninstall() when a job of its OnSuccess= or OnFailure=
\* handler was the last to keep it, or is referred to by such a unit: whatever else takes
\* away what a unit was needed for puts it into the queue.
THEOREM NoLeakAlways == Spec => []NoLeak
<1>1. Inv => NoLeak
  <2> SUFFICES ASSUME Inv, phase = "idle", gc_queue = <<>>, cleanup = {}
               PROVE  units \subseteq Reachable(Kept \cup overlooked, refs)
    BY Zenon DEF NoLeak
  <2>1. Waiting = {} /\ popped = NoUnit
    BY DEF Waiting, Inv, PhaseOK
  <2>2. Kept \cup Pending = Kept \cup overlooked
    BY <2>1, Zenon DEF Pending
  <2> QED BY <2>2, Zenon DEF Inv, Covered
<1> QED BY <1>1, InvAlways, PTL

=============================================================================
